---- MODULE Spec2Model ----
(***************************************************************************)
(* A model of the response-normalisation layer of Yahoo_NBA_Fantasy_Hub:   *)
(* the defensive accessor safe_get, the two weekly parsers, the weekly run  *)
(* of main(), the two save functions and a caller making several calls.    *)
(*                                                                         *)
(* Python values are records tagged by their type:                         *)
(*   [t |-> "none"]                        None                            *)
(*   [t |-> "int",   n  |-> 7]             an int                          *)
(*   [t |-> "str",   s  |-> <<"7","/">>]   a str, as its characters        *)
(*   [t |-> "float", m  |-> 625, e |-> 3]  a float, held as the exact       *)
(*        decimal m / 10^e with no trailing zero (binary rounding is not   *)
(*        modelled)                                                        *)
(*   [t |-> "list",  vs |-> <<...>>]       a list                          *)
(*   [t |-> "dict",  ks |-> <<...>>, vs |-> <<...>>]                       *)
(*        a dict in insertion order; ks are the keys (the characters of    *)
(*        each str key: JSON object keys are strings), vs the values.      *)
(* A call that may raise returns [ok |-> BOOLEAN, val |-> value].          *)
(***************************************************************************)
EXTENDS Integers, Sequences, FiniteSets, TLC

VARIABLES
    sg_root,      \* safe_get: the argument d of the call
    sg_default,   \* safe_get: the keyword argument default
    sg_keys,      \* safe_get: the keys of the path consumed so far
    sg_d,         \* safe_get: the local d, the node reached
    sg_at,        \* safe_get: the node the last key was looked up in
    sg_pc,        \* safe_get: "idle", "loop" (before a key), "returned" or "raised"
    sg_ret,       \* safe_get: the value returned
    p_fn,         \* parser call: "scoreboard" or "standings" ("idle": no call)
    p_data,       \* parser call: the decoded response passed as data
    p_pc,         \* parser call: "idle", "called" or "done"
    p_out,        \* parser call: [raised, result], how the call ended
    m_pc,         \* main: the block of the weekly run to execute next ("idle": no run)
    m_files,      \* main: the response files of the week, per data kind
    m_flags,      \* main: is_scoreboard_parsing_exists, is_standings_parsing_exists
    m_parsed,     \* main: per data kind, whether its parser returned
    m_saved,      \* main: per data kind, the records written to league_data
    m_rendered,   \* main: the visualizations called
    m_exit,       \* main: "running", "ok", "failure" (sys.exit(1)) or "traceback"
    sv_fn,        \* save: "parsed" (save_parsed_response_to_file) or "response" (save_response_to_file); "idle": no call
    sv_response,  \* save: the argument response
    sv_path,      \* save: the argument path, as its characters
    sv_pc,        \* save: "idle", "called" or "done"
    sv_file,      \* save: the file written, [written, path, doc]
    c_tree,       \* caller: the response tree it holds and passes to every call
    c_log,        \* caller: the calls made so far, each [fn, keys, default, out]
    h_df,         \* head-to-head: the argument df, a sequence of rows ("idle": no call)
    h_pc,         \* head-to-head: "idle", "called" or "done"
    h_out,        \* head-to-head: [raised, matrix, wlt, winpct], how build_head_to_head_df ended
    t_file,       \* token: the contents of the token file, NoTokenFile when it does not exist
    t_now,        \* token: the clock datetime.now() reads
    t_op,         \* token: the function called last ("idle": none yet)
    t_arg,        \* token: the argument of that call
    t_trace,      \* token: the HTTP requests that call sent and the files it removed, in order
    t_out         \* token: [raised, result], how that call ended

sg_vars == <<sg_root, sg_default, sg_keys, sg_d, sg_at, sg_pc, sg_ret>>
p_vars == <<p_fn, p_data, p_pc, p_out>>

m_vars == <<m_pc, m_files, m_flags, m_parsed, m_saved, m_rendered, m_exit>>

sv_vars == <<sv_fn, sv_response, sv_path, sv_pc, sv_file>>
c_vars == <<c_tree, c_log>>
h_vars == <<h_df, h_pc, h_out>>
t_vars == <<t_file, t_now, t_op, t_arg, t_trace, t_out>>

vars == <<sg_vars, p_vars, m_vars, sv_vars, c_vars, h_vars, t_vars>>

\* no weekly run
MainIdle ==
    /\ m_pc = "idle"
    /\ m_files = <<>> /\ m_flags = <<>> /\ m_parsed = <<>> /\ m_saved = <<>>
    /\ m_rendered = {}
    /\ m_exit = "running"

\* no call of a save function
SaveIdle ==
    /\ sv_fn = "idle" /\ sv_response = <<>> /\ sv_path = <<>> /\ sv_pc = "idle"
    /\ sv_file = [written |-> FALSE, path |-> <<>>, doc |-> <<>>]

\* no caller making a sequence of calls
CallsIdle == c_tree = <<>> /\ c_log = <<>>

\* no call of build_head_to_head_df
H2HIdle == h_df = <<>> /\ h_pc = "idle" /\ h_out = <<>>

\* no call of a token function
TokenIdle ==
    /\ t_file = <<>> /\ t_now = 0 /\ t_op = "idle" /\ t_arg = <<>>
    /\ t_trace = <<>> /\ t_out = <<>>

-----------------------------------------------------------------------------
(* Python values *)

None == [t |-> "none"]
PyInt(n) == [t |-> "int", n |-> n]
PyStr(s) == [t |-> "str", s |-> s]
PyList(vs) == [t |-> "list", vs |-> vs]
PyDict(ks, vs) == [t |-> "dict", ks |-> ks, vs |-> vs]

IsDict(d) == d.t = "dict"
IsList(d) == d.t = "list"
IsStr(d) == d.t = "str"
IsInt(d) == d.t = "int"
IsNone(d) == d.t = "none"

Ok(v) == [ok |-> TRUE, val |-> v]
Raise == [ok |-> FALSE, val |-> None]

\* str(n) for an int n: the decimal digits, with a leading "-" when negative
DigitChar(i) == <<"0", "1", "2", "3", "4", "5", "6", "7", "8", "9">>[i + 1]

RECURSIVE NatToStr(_)
NatToStr(n) == IF n < 10 THEN <<DigitChar(n)>> ELSE NatToStr(n \div 10) \o <<DigitChar(n % 10)>>

IntToStr(n) == IF n < 0 THEN <<"-">> \o NatToStr(-n) ELSE NatToStr(n)

\* `k in d` for a dict d whose keys are strings: an int is never a key
HasKey(d, k) == \E i \in 1..Len(d.ks) : d.ks[i] = k

\* d[k] for a dict d that contains the str k
GetKey(d, k) == d.vs[CHOOSE i \in 1..Len(d.ks) : d.ks[i] = k]

\* `key in d` for a dict d and a key that is a str or an int
KeyIn(d, key) == IsStr(key) /\ HasKey(d, key.s)

\* d[key]: KeyError for a key the dict lacks, IndexError for an index out of
\* range (a negative index counts from the end), TypeError for a str index
\* of a list or str and for any subscript of None or a number
Subscript(d, key) ==
    IF IsDict(d) THEN (IF KeyIn(d, key) THEN Ok(GetKey(d, key.s)) ELSE Raise)
    ELSE IF IsList(d) /\ IsInt(key)
         THEN IF 0 <= key.n /\ key.n < Len(d.vs) THEN Ok(d.vs[key.n + 1])
              ELSE IF key.n < 0 /\ 0 - key.n <= Len(d.vs) THEN Ok(d.vs[Len(d.vs) + key.n + 1])
              ELSE Raise
    ELSE IF IsStr(d) /\ IsInt(key)
         THEN IF 0 <= key.n /\ key.n < Len(d.s) THEN Ok(PyStr(<<d.s[key.n + 1]>>))
              ELSE IF key.n < 0 /\ 0 - key.n <= Len(d.s) THEN Ok(PyStr(<<d.s[Len(d.s) + key.n + 1]>>))
              ELSE Raise
    ELSE Raise

-----------------------------------------------------------------------------
(* safe_get, one iteration of `for key in keys` at a time *)

Found(v) == [found |-> TRUE, raised |-> FALSE, d |-> v]
NotFound == [found |-> FALSE, raised |-> FALSE, d |-> None]
Raised == [found |-> FALSE, raised |-> TRUE, d |-> None]

\* `d = <subscription>` followed by continue or break
Follow(r) == IF r.ok THEN Found(r.val) ELSE Raised

\* where a loop with `break` on a hit stops: the least index of a TRUE in
\* hits, 0 when there is none
FirstIndex(hits) ==
    IF \E i \in 1..Len(hits) : hits[i]
    THEN CHOOSE i \in 1..Len(hits) : hits[i] /\ \A j \in 1..(i - 1) : ~hits[j]
    ELSE 0

\* the inner loop over v.values(): the first inner dict that contains key
InnerSearch(v, key) ==
    LET hit(i) == IsDict(v.vs[i]) /\ KeyIn(v.vs[i], key)
        i == FirstIndex([n \in 1..Len(v.vs) |-> hit(n)])
    IN  IF i = 0 THEN NotFound ELSE Follow(Subscript(v.vs[i], key))

\* ValueSearch with the inner dicts of v searched before v itself
ValueSearch_inner_first(v, key) ==
    IF IsDict(v) /\ (InnerSearch(v, key).found \/ InnerSearch(v, key).raised) THEN InnerSearch(v, key)
    ELSE IF IsDict(v) /\ KeyIn(v, key) THEN Follow(Subscript(v, key))
    ELSE NotFound

\* what one value v of d.values() contributes to the search for a str key
ValueSearch(v, key) ==
    IF IsDict(v) /\ KeyIn(v, key) THEN Follow(Subscript(v, key))
    ELSE IF IsDict(v) THEN InnerSearch(v, key)
    ELSE NotFound

\* Case A, key a str not in d: search the values, first match wins
DictSearch(d, key) ==
    LET hit(i) == ValueSearch(d.vs[i], key).found \/ ValueSearch(d.vs[i], key).raised
        i == FirstIndex([n \in 1..Len(d.vs) |-> hit(n)])
    IN  IF i = 0 THEN NotFound ELSE ValueSearch(d.vs[i], key)

\* DictStep without the retry of an int key as str(key)
DictStep_no_str_index(d, key) ==
    IF KeyIn(d, key) THEN Follow(Subscript(d, key))
    ELSE IF IsStr(key) THEN DictSearch(d, key)
    ELSE NotFound

\* Case A: the current node is a dict
DictStep(d, key) ==
    IF KeyIn(d, key) THEN Follow(Subscript(d, key))
    ELSE IF IsInt(key) /\ HasKey(d, IntToStr(key.n)) THEN Follow(Subscript(d, PyStr(IntToStr(key.n))))
    ELSE IF IsStr(key) THEN DictSearch(d, key)
    ELSE NotFound

\* ListSearch as one pass: per element, the element itself and then its values
ListSearch_single_pass(d, key) ==
    LET hit(i) == ValueSearch(d.vs[i], key).found \/ ValueSearch(d.vs[i], key).raised
        i == FirstIndex([n \in 1..Len(d.vs) |-> hit(n)])
    IN  IF i = 0 THEN NotFound ELSE ValueSearch(d.vs[i], key)

\* Case B, key a str: first the elements, then the values of the elements
ListSearch(d, key) ==
    LET direct(i) == IsDict(d.vs[i]) /\ KeyIn(d.vs[i], key)
        i == FirstIndex([n \in 1..Len(d.vs) |-> direct(n)])
        nested(j) == IsDict(d.vs[j]) /\ (InnerSearch(d.vs[j], key).found \/ InnerSearch(d.vs[j], key).raised)
        j == FirstIndex([n \in 1..Len(d.vs) |-> nested(n)])
    IN  IF i # 0 THEN Follow(Subscript(d.vs[i], key))
        ELSE IF j # 0 THEN InnerSearch(d.vs[j], key)
        ELSE NotFound

\* ListStep without the range check of the index
ListStep_unchecked(d, key) ==
    IF IsInt(key) THEN Follow(Subscript(d, key))
    ELSE IF IsStr(key) THEN ListSearch(d, key)
    ELSE NotFound

\* ListStep with a negative index counted from the end, as a subscript does
ListStep_from_end(d, key) ==
    IF IsInt(key)
    THEN IF 0 - Len(d.vs) <= key.n /\ key.n < Len(d.vs) THEN Follow(Subscript(d, key)) ELSE NotFound
    ELSE IF IsStr(key) THEN ListSearch(d, key)
    ELSE NotFound

\* Case B: the current node is a list
ListStep(d, key) ==
    IF IsInt(key)
    THEN IF 0 <= key.n /\ key.n < Len(d.vs) THEN Follow(Subscript(d, key)) ELSE NotFound
    ELSE IF IsStr(key) THEN ListSearch(d, key)
    ELSE NotFound

\* SafeGetStep with None passed on to the next key instead of `return default`
SafeGetStep_none_continues(d, key) ==
    IF IsNone(d) THEN Found(None)
    ELSE IF IsDict(d) THEN DictStep(d, key)
    ELSE IF IsList(d) THEN ListStep(d, key)
    ELSE NotFound

\* SafeGetStep with a None found under the key taken as not found
SafeGetStep_none_unresolved(d, key) ==
    IF IsNone(d) THEN NotFound
    ELSE IF IsDict(d) THEN (IF DictStep(d, key).found /\ IsNone(DictStep(d, key).d) THEN NotFound ELSE DictStep(d, key))
    ELSE IF IsList(d) THEN (IF ListStep(d, key).found /\ IsNone(ListStep(d, key).d) THEN NotFound ELSE ListStep(d, key))
    ELSE NotFound

\* the body of the loop for one key: the node to continue with, `return
\* default`, or an exception that leaves the function
SafeGetStep(d, key) ==
    IF IsNone(d) THEN NotFound
    ELSE IF IsDict(d) THEN DictStep(d, key)
    ELSE IF IsList(d) THEN ListStep(d, key)
    ELSE NotFound

\* safe_get(d, *keys, default=default)
RECURSIVE safe_get(_, _, _)
safe_get(d, keys, default) ==
    IF keys = <<>> THEN Ok(d)
    ELSE LET r == SafeGetStep(d, Head(keys))
         IN  IF r.raised THEN Raise
             ELSE IF r.found THEN safe_get(r.d, Tail(keys), default)
             ELSE Ok(default)

-----------------------------------------------------------------------------
(* Python primitives the parsers use *)

Digits == {"0", "1", "2", "3", "4", "5", "6", "7", "8", "9"}
DigitValue(c) == CHOOSE i \in 0..9 : DigitChar(i) = c

\* str(x) for a str, an int or None
PyStrOf(x) ==
    CASE IsStr(x) -> x.s
      [] IsInt(x) -> IntToStr(x.n)
      [] IsNone(x) -> <<"N", "o", "n", "e">>

\* s.split(sep) for a one-character separator: the pieces between separators
RECURSIVE Split(_, _)
Split(s, sep) ==
    IF \A i \in 1..Len(s) : s[i] # sep THEN <<s>>
    ELSE LET i == CHOOSE i \in 1..Len(s) : s[i] = sep /\ \A j \in 1..(i - 1) : s[j] # sep
         IN  <<SubSeq(s, 1, i - 1)>> \o Split(SubSeq(s, i + 1, Len(s)), sep)

\* s.strip() for blanks
RECURSIVE Strip(_)
Strip(s) ==
    IF s # <<>> /\ Head(s) = " " THEN Strip(Tail(s))
    ELSE IF s # <<>> /\ s[Len(s)] = " " THEN Strip(SubSeq(s, 1, Len(s) - 1))
    ELSE s

RECURSIVE DigitsValue(_)
DigitsValue(s) == IF s = <<>> THEN 0 ELSE 10 * DigitsValue(SubSeq(s, 1, Len(s) - 1)) + DigitValue(s[Len(s)])

IsDigits(s) == s # <<>> /\ \A i \in 1..Len(s) : s[i] \in Digits

\* int(s) for a str s: blanks around it are dropped, one sign may lead, the rest
\* must be decimal digits; anything else is a ValueError
IntOfStr(s) ==
    LET b == Strip(s)
        signed == b # <<>> /\ Head(b) \in {"-", "+"}
        body == IF signed THEN Tail(b) ELSE b
    IN  IF ~IsDigits(body) THEN Raise
        ELSE Ok(PyInt(IF signed /\ Head(b) = "-" THEN 0 - DigitsValue(body) ELSE DigitsValue(body)))

\* the items `for x in node` yields: the elements of a list, the keys of a
\* dict, the characters of a str; TypeError for None and numbers
Iterate(node) ==
    IF IsList(node) THEN Ok(node.vs)
    ELSE IF IsDict(node) THEN Ok([i \in 1..Len(node.ks) |-> PyStr(node.ks[i])])
    ELSE IF IsStr(node) THEN Ok([i \in 1..Len(node.s) |-> PyStr(<<node.s[i]>>)])
    ELSE Raise

\* a dict built by the parsers: keys are str values or None, in insertion order
EmptyMap == [ks |-> <<>>, vs |-> <<>>]

\* MapSet that leaves the value of a key already present as it was
MapSet_keeps_first(m, k, v) ==
    IF \E i \in 1..Len(m.ks) : m.ks[i] = k
    THEN m
    ELSE [ks |-> Append(m.ks, k), vs |-> Append(m.vs, v)]

\* m[k] = v: a key already present keeps its place and takes the new value
MapSet(m, k, v) ==
    IF \E i \in 1..Len(m.ks) : m.ks[i] = k
    THEN [m EXCEPT !.vs[CHOOSE i \in 1..Len(m.ks) : m.ks[i] = k] = v]
    ELSE [ks |-> Append(m.ks, k), vs |-> Append(m.vs, v)]

\* TABLE.get(k) for a table from str to str: None for a key not in it
TableGet(table, k) == IF k \in DOMAIN table THEN PyStr(table[k]) ELSE None

\* the keys of the API responses
s_fantasy_content == <<"f", "a", "n", "t", "a", "s", "y", "_", "c", "o", "n", "t", "e", "n", "t">>
s_league == <<"l", "e", "a", "g", "u", "e">>
s_scoreboard == <<"s", "c", "o", "r", "e", "b", "o", "a", "r", "d">>
s_matchups == <<"m", "a", "t", "c", "h", "u", "p", "s">>
s_matchup == <<"m", "a", "t", "c", "h", "u", "p">>
s_teams == <<"t", "e", "a", "m", "s">>
s_team == <<"t", "e", "a", "m">>
s_team_key == <<"t", "e", "a", "m", "_", "k", "e", "y">>
s_team_id == <<"t", "e", "a", "m", "_", "i", "d">>
s_team_stats == <<"t", "e", "a", "m", "_", "s", "t", "a", "t", "s">>
s_stats == <<"s", "t", "a", "t", "s">>
s_stat == <<"s", "t", "a", "t">>
s_stat_id == <<"s", "t", "a", "t", "_", "i", "d">>
s_value == <<"v", "a", "l", "u", "e">>
s_count == <<"c", "o", "u", "n", "t">>
s_standings == <<"s", "t", "a", "n", "d", "i", "n", "g", "s">>
s_team_standings == <<"t", "e", "a", "m", "_", "s", "t", "a", "n", "d", "i", "n", "g", "s">>
s_outcome_totals == <<"o", "u", "t", "c", "o", "m", "e", "_", "t", "o", "t", "a", "l", "s">>
s_percentage == <<"p", "e", "r", "c", "e", "n", "t", "a", "g", "e">>
s_rank == <<"r", "a", "n", "k">>

STAT_ID_TO_NAME_MAP ==
    (<<"5">> :> <<"F", "G", "%">>)
    @@ (<<"8">> :> <<"F", "T", "%">>)
    @@ (<<"1", "0">> :> <<"3", "P", "T", "M">>)
    @@ (<<"1", "2">> :> <<"P", "T", "S">>)
    @@ (<<"1", "5">> :> <<"R", "E", "B">>)
    @@ (<<"1", "6">> :> <<"A", "S", "T">>)
    @@ (<<"1", "7">> :> <<"S", "T", "L">>)
    @@ (<<"1", "8">> :> <<"B", "L", "K">>)
    @@ (<<"1", "9">> :> <<"T", "O">>)
    @@ (<<"9", "0", "0", "4", "0", "0", "3">> :> <<"F", "G", "M", "/", "F", "G", "A">>)
    @@ (<<"9", "0", "0", "7", "0", "0", "6">> :> <<"F", "T", "M", "/", "F", "T", "A">>)

MANAGER_ID_TO_NAME_MAP ==
    (<<"1">> :> <<"B", "u", "c", "h", "a", "r", "e", "s", "t", " ", "P", "a", "n", "t", "h", "e", "r", "s">>)
    @@ (<<"2">> :> <<"T", "h", "e", " ", "P", "e", "r", "f", "u", "m", "e", "r">>)
    @@ (<<"3">> :> <<"N", "a", "h", "i", "'", "s", " ", "B", "O", "Y", "S">>)
    @@ (<<"4">> :> <<"L", "e", "B", "r", "o", "t", "h", "e", "r", " ", "I", "n", " ", "L", "a", "w">>)
    @@ (<<"5">> :> <<"F", ".", "C", " ", "H", "A", "T", "E", "R", "S">>)
    @@ (<<"6">> :> <<"L", "e", "v", "i", "n", "S", "o", "n", "s">>)
    @@ (<<"7">> :> <<"M", "a", "p", "l", "e", " ", "M", "a", "m", "b", "a">>)
    @@ (<<"8">> :> <<"T", "o", "m", "i", "t", "z", " ", "T", "a", "p", "u", "z", "i", "m", " ", "B", ".", "C">>)
    @@ (<<"9">> :> <<"ה", "מ", "ט", "ב", "י", "ל">>)
    @@ (<<"1", "0">> :> <<"ג", "'", "י", "י", " ", "ג", "'", "י", "י", " ", "ר", "ד", "י">>)

extract_from_list_of_dicts(lst, key) ==
    IF ~IsList(lst) THEN None
    ELSE LET hit(i) == IsDict(lst.vs[i]) /\ HasKey(lst.vs[i], key)
             i == FirstIndex([n \in 1..Len(lst.vs) |-> hit(n)])
         IN  IF i = 0 THEN None ELSE GetKey(lst.vs[i], key)

-----------------------------------------------------------------------------
(* The loop over a team's stats, which both parsers run *)

ID_FG == PyStr(<<"9", "0", "0", "4", "0", "0", "3">>)
ID_FT == PyStr(<<"9", "0", "0", "7", "0", "0", "6">>)

\* DecodeComposite that leaves a value it cannot split out of the stats
DecodeComposite_lenient(stats_map, stat_id, stat_value) ==
    LET parts == Split(PyStrOf(stat_value), "/")
        throw_type == IF stat_id = ID_FG THEN <<"F", "G">> ELSE <<"F", "T">>
    IN  IF Len(parts) # 2 \/ ~IntOfStr(parts[1]).ok \/ ~IntOfStr(parts[2]).ok THEN Ok(stats_map)
        ELSE Ok(MapSet(MapSet(stats_map, PyStr(throw_type \o <<"M">>), IntOfStr(parts[1]).val),
                       PyStr(throw_type \o <<"A">>), IntOfStr(parts[2]).val))

\* DecodeComposite with made and attempts stored under each other's key
DecodeComposite_swapped(stats_map, stat_id, stat_value) ==
    LET parts == Split(PyStrOf(stat_value), "/")
        throw_type == IF stat_id = ID_FG THEN <<"F", "G">> ELSE <<"F", "T">>
    IN  IF Len(parts) # 2 \/ ~IntOfStr(parts[1]).ok \/ ~IntOfStr(parts[2]).ok THEN Raise
        ELSE Ok(MapSet(MapSet(stats_map, PyStr(throw_type \o <<"A">>), IntOfStr(parts[1]).val),
                       PyStr(throw_type \o <<"M">>), IntOfStr(parts[2]).val))

\* the branch of a composite id: split "made/attempted" and store two ints
DecodeComposite(stats_map, stat_id, stat_value) ==
    LET parts == Split(PyStrOf(stat_value), "/")
        throw_type == IF stat_id = ID_FG THEN <<"F", "G">> ELSE <<"F", "T">>
    IN  IF Len(parts) # 2 THEN Raise
        ELSE IF ~IntOfStr(parts[1]).ok THEN Raise
        ELSE IF ~IntOfStr(parts[2]).ok THEN Raise
        ELSE Ok(MapSet(MapSet(stats_map, PyStr(throw_type \o <<"M">>), IntOfStr(parts[1]).val),
                       PyStr(throw_type \o <<"A">>), IntOfStr(parts[2]).val))

\* DecodeStat that also keeps a composite value under its table name
DecodeStat_keeps_raw(stats_map, stat) ==
    LET stat_dict == Subscript(stat, PyStr(s_stat))
        stat_id == Subscript(stat_dict.val, PyStr(s_stat_id))
        stat_value == Subscript(stat_dict.val, PyStr(s_value))
    IN  IF ~stat_dict.ok THEN Raise
        ELSE IF ~stat_id.ok THEN Raise
        ELSE IF ~stat_value.ok THEN Raise
        ELSE IF stat_id.val = ID_FG \/ stat_id.val = ID_FT
             THEN DecodeComposite(MapSet(stats_map, TableGet(STAT_ID_TO_NAME_MAP, PyStrOf(stat_id.val)), stat_value.val), stat_id.val, stat_value.val)
        ELSE Ok(MapSet(stats_map, TableGet(STAT_ID_TO_NAME_MAP, PyStrOf(stat_id.val)), stat_value.val))

\* DecodeStat with the name looked up as STAT_ID_TO_NAME_MAP[str(stat_id)]:
\* KeyError for an id the table lacks
DecodeStat_strict_lookup(stats_map, stat) ==
    LET stat_dict == Subscript(stat, PyStr(s_stat))
        stat_id == Subscript(stat_dict.val, PyStr(s_stat_id))
        stat_value == Subscript(stat_dict.val, PyStr(s_value))
    IN  IF ~stat_dict.ok THEN Raise
        ELSE IF ~stat_id.ok THEN Raise
        ELSE IF ~stat_value.ok THEN Raise
        ELSE IF stat_id.val = ID_FG \/ stat_id.val = ID_FT
             THEN DecodeComposite(stats_map, stat_id.val, stat_value.val)
        ELSE IF PyStrOf(stat_id.val) \notin DOMAIN STAT_ID_TO_NAME_MAP THEN Raise
        ELSE Ok(MapSet(stats_map, TableGet(STAT_ID_TO_NAME_MAP, PyStrOf(stat_id.val)), stat_value.val))

\* DecodeStat with the composite test made on str(stat_id)
DecodeStat_str_compare(stats_map, stat) ==
    LET stat_dict == Subscript(stat, PyStr(s_stat))
        stat_id == Subscript(stat_dict.val, PyStr(s_stat_id))
        stat_value == Subscript(stat_dict.val, PyStr(s_value))
    IN  IF ~stat_dict.ok THEN Raise
        ELSE IF ~stat_id.ok THEN Raise
        ELSE IF ~stat_value.ok THEN Raise
        ELSE IF PyStr(PyStrOf(stat_id.val)) = ID_FG \/ PyStr(PyStrOf(stat_id.val)) = ID_FT
             THEN DecodeComposite(stats_map, PyStr(PyStrOf(stat_id.val)), stat_value.val)
        ELSE Ok(MapSet(stats_map, TableGet(STAT_ID_TO_NAME_MAP, PyStrOf(stat_id.val)), stat_value.val))

\* the body of `for stat in stats_lst`: the stats_map after it, or an exception
DecodeStat(stats_map, stat) ==
    LET stat_dict == Subscript(stat, PyStr(s_stat))
        stat_id == Subscript(stat_dict.val, PyStr(s_stat_id))
        stat_value == Subscript(stat_dict.val, PyStr(s_value))
    IN  IF ~stat_dict.ok THEN Raise
        ELSE IF ~stat_id.ok THEN Raise
        ELSE IF ~stat_value.ok THEN Raise
        ELSE IF stat_id.val = ID_FG \/ stat_id.val = ID_FT
             THEN DecodeComposite(stats_map, stat_id.val, stat_value.val)
        ELSE Ok(MapSet(stats_map, TableGet(STAT_ID_TO_NAME_MAP, PyStrOf(stat_id.val)), stat_value.val))

RECURSIVE StatsFold(_, _)
StatsFold(stats_map, items) ==
    IF items = <<>> THEN Ok(stats_map)
    ELSE LET r == DecodeStat(stats_map, Head(items))
         IN  IF r.ok THEN StatsFold(r.val, Tail(items)) ELSE Raise

\* stats_map = {}; stats_lst = team_stats_dict["team_stats"]["stats"]; the loop
StatsLoop(team_stats_dict) ==
    LET team_stats == Subscript(team_stats_dict, PyStr(s_team_stats))
        stats_lst == Subscript(team_stats.val, PyStr(s_stats))
    IN  IF ~team_stats.ok THEN Raise
        ELSE IF ~stats_lst.ok THEN Raise
        ELSE IF ~Iterate(stats_lst.val).ok THEN Raise
        ELSE StatsFold(EmptyMap, Iterate(stats_lst.val).val)

-----------------------------------------------------------------------------
(* parse_weekly_scoreboard *)

\* what one iteration of a loop over teams does
Skipped == [kind |-> "skip"]
Threw == [kind |-> "raise"]
Emitted(rec) == [kind |-> "record", rec |-> rec]

\* the body of `for team in teams.values()`
ScoreboardTeam(team) ==
    LET team_lst == Subscript(team, PyStr(s_team))
        team_info == Subscript(team_lst.val, PyInt(0))
        team_id == extract_from_list_of_dicts(team_info.val, s_team_id)
        team_stats_dict == Subscript(team_lst.val, PyInt(1))
        stats_map == StatsLoop(team_stats_dict.val)
    IN  IF ~IsDict(team) THEN Skipped
        ELSE IF ~team_lst.ok THEN Threw
        ELSE IF ~team_info.ok THEN Threw
        ELSE IF ~team_stats_dict.ok THEN Threw
        ELSE IF ~IsDict(team_stats_dict.val) THEN Skipped
        ELSE IF ~stats_map.ok THEN Threw
        ELSE Emitted([team_name |-> TableGet(MANAGER_ID_TO_NAME_MAP, PyStrOf(team_id)),
                      stats |-> stats_map.val])

\* a call's outcome: the list returned, or an exception out of the call
Returned(result) == [raised |-> FALSE, result |-> result]
Propagated == [raised |-> TRUE, result |-> <<>>]

RECURSIVE ScoreboardTeams(_, _)
\* the rest of the loop after one team ended as o
ScoreboardTeamsRest(o, teams, result) ==
    IF o.kind = "raise" THEN Propagated
    ELSE ScoreboardTeams(teams, IF o.kind = "record" THEN Append(result, o.rec) ELSE result)

ScoreboardTeams(teams, result) ==
    IF teams = <<>> THEN Returned(result)
    ELSE ScoreboardTeamsRest(ScoreboardTeam(Head(teams)), Tail(teams), result)

EmptyDict == PyDict(<<>>, <<>>)

\* `if isinstance(teams, dict)` and the loop over teams.values()
MatchupTeams(teams, result) ==
    IF ~teams.ok THEN Propagated
    ELSE IF IsDict(teams.val) THEN ScoreboardTeams(teams.val.vs, result)
    ELSE Returned(result)

\* the body of `for matchup in matchups.values()`
ScoreboardMatchup(matchup, result) == MatchupTeams(safe_get(matchup, <<PyStr(s_teams)>>, EmptyDict), result)

RECURSIVE ScoreboardMatchups(_, _)
\* the rest of the loop after one matchup ended as o
ScoreboardRest(o, matchups) == IF o.raised THEN Propagated ELSE ScoreboardMatchups(matchups, o.result)

ScoreboardMatchups(matchups, result) ==
    IF matchups = <<>> THEN Returned(result)
    ELSE ScoreboardRest(ScoreboardMatchup(Head(matchups), result), Tail(matchups))

\* `if isinstance(matchups, dict)` and the loop over matchups.values()
ScoreboardWalk(matchups) ==
    IF ~matchups.ok THEN Propagated
    ELSE IF IsDict(matchups.val) THEN ScoreboardMatchups(matchups.val.vs, <<>>)
    ELSE Returned(<<>>)

parse_weekly_scoreboard(data) ==
    ScoreboardWalk(safe_get(data, <<PyStr(s_fantasy_content), PyStr(s_league), PyStr(s_scoreboard), PyStr(s_matchups)>>, None))

-----------------------------------------------------------------------------
(* parse_weekly_standings *)

\* the decimal m / 10^e without trailing zeros in the fraction
RECURSIVE PyFloat(_, _)
PyFloat(m, e) == IF e > 0 /\ m % 10 = 0 THEN PyFloat(m \div 10, e - 1) ELSE [t |-> "float", m |-> m, e |-> e]

IsFloat(x) == x.t = "float"

\* float(s) for a str s: blanks around it are dropped, one sign may lead, the
\* rest is digits with at most one "." and at least one digit (exponents,
\* "inf" and "nan" are outside the inputs of the model); else ValueError
FloatOfStr(s) ==
    LET b == Strip(s)
        signed == b # <<>> /\ Head(b) \in {"-", "+"}
        body == IF signed THEN Tail(b) ELSE b
        parts == Split(body, ".")
        whole == parts[1]
        frac == IF Len(parts) = 2 THEN parts[2] ELSE <<>>
        good == /\ Len(parts) <= 2
                /\ whole \o frac # <<>>
                /\ \A i \in 1..Len(whole \o frac) : (whole \o frac)[i] \in Digits
        m == DigitsValue(whole \o frac)
    IN  IF ~good THEN Raise
        ELSE Ok(PyFloat(IF signed /\ Head(b) = "-" THEN 0 - m ELSE m, Len(frac)))

\* float(x): TypeError for None, lists and dicts
FloatOf(x) ==
    IF IsStr(x) THEN FloatOfStr(x.s)
    ELSE IF IsInt(x) THEN Ok(PyFloat(x.n, 0))
    ELSE IF IsFloat(x) THEN Ok(x)
    ELSE Raise

\* bool(x)
Truthy(x) ==
    CASE IsNone(x) -> FALSE
      [] IsStr(x) -> x.s # <<>>
      [] IsInt(x) -> x.n # 0
      [] IsFloat(x) -> x.m # 0
      [] IsList(x) -> x.vs # <<>>
      [] IsDict(x) -> x.ks # <<>>

\* win_rate = float(win_rate_raw) * 100 if win_rate_raw else 0.0
WinRate(win_rate_raw) ==
    IF ~Truthy(win_rate_raw) THEN Ok(PyFloat(0, 0))
    ELSE IF ~FloatOf(win_rate_raw).ok THEN Raise
    ELSE Ok(PyFloat(FloatOf(win_rate_raw).val.m * 100, FloatOf(win_rate_raw).val.e))

\* int(standing)+1 with the 1 left out
StandingOf_zero_based(standing) ==
    IF IntOfStr(standing).ok THEN Ok(IntOfStr(standing).val.n) ELSE Raise

\* "standing": int(standing)+1, for the key the team is stored under
StandingOf(standing) ==
    IF IntOfStr(standing).ok THEN Ok(IntOfStr(standing).val.n + 1) ELSE Raise

\* the body of `for standing, team in standings.items()`
StandingsTeam(standing, team) ==
    LET team_lst == Subscript(team, PyStr(s_team))
        team_info == Subscript(team_lst.val, PyInt(0))
        team_id == extract_from_list_of_dicts(team_info.val, s_team_id)
        team_stats_dict == Subscript(team_lst.val, PyInt(1))
        stats_map == StatsLoop(team_stats_dict.val)
        team_standings_dict == Subscript(team_lst.val, PyInt(2))
        team_standings == Subscript(team_standings_dict.val, PyStr(s_team_standings))
        outcome_totals == Subscript(team_standings.val, PyStr(s_outcome_totals))
        win_rate_raw == Subscript(outcome_totals.val, PyStr(s_percentage))
        win_rate == WinRate(win_rate_raw.val)
    IN  IF ~IsDict(team) THEN Skipped
        ELSE IF ~team_lst.ok THEN Threw
        ELSE IF ~team_info.ok THEN Threw
        ELSE IF ~team_stats_dict.ok THEN Threw
        ELSE IF ~IsDict(team_stats_dict.val) THEN Skipped
        ELSE IF ~stats_map.ok THEN Threw
        ELSE IF ~team_standings_dict.ok THEN Threw
        ELSE IF ~team_standings.ok THEN Threw
        ELSE IF ~outcome_totals.ok THEN Threw
        ELSE IF ~win_rate_raw.ok THEN Threw
        ELSE IF ~win_rate.ok THEN Threw
        ELSE IF ~StandingOf(standing).ok THEN Threw
        ELSE Emitted([team_name |-> TableGet(MANAGER_ID_TO_NAME_MAP, PyStrOf(team_id)),
                      standing |-> StandingOf(standing).val,
                      win_rate |-> win_rate.val,
                      stats |-> stats_map.val])

\* the loop over standings.items(): result when it ends, and whether an
\* exception ended it
RECURSIVE StandingsTeams(_, _, _)
\* the rest of the loop after one team ended as o
StandingsRest(o, ks, vs, result) ==
    IF o.kind = "raise" THEN [raised |-> TRUE, result |-> result]
    ELSE StandingsTeams(ks, vs, IF o.kind = "record" THEN Append(result, o.rec) ELSE result)

StandingsTeams(ks, vs, result) ==
    IF ks = <<>> THEN [raised |-> FALSE, result |-> result]
    ELSE StandingsRest(StandingsTeam(Head(ks), Head(vs)), Tail(ks), Tail(vs), result)

Caught(result) == [raised |-> TRUE, result |-> result]
Completed(result) == [raised |-> FALSE, result |-> result]

\* `if isinstance(standings, dict)` and the loop over standings.items()
StandingsWalk(standings) ==
    IF ~standings.ok THEN Caught(<<>>)
    ELSE IF IsDict(standings.val) THEN StandingsTeams(standings.val.ks, standings.val.vs, <<>>)
    ELSE Completed(<<>>)

\* standings = safe_get(standings_structure[0], "teams")
StandingsFirst(first) == IF ~first.ok THEN Caught(<<>>) ELSE StandingsWalk(safe_get(first.val, <<PyStr(s_teams)>>, None))

\* `if not standings_structure is None`
StandingsStructure(standings_structure) ==
    IF ~standings_structure.ok THEN Caught(<<>>)
    ELSE IF IsNone(standings_structure.val) THEN Completed(<<>>)
    ELSE StandingsFirst(Subscript(standings_structure.val, PyInt(0)))

\* the try block: result as the block leaves it, and whether by an exception
StandingsTry(data) ==
    StandingsStructure(safe_get(data, <<PyStr(s_fantasy_content), PyStr(s_league), PyStr(s_standings)>>, None))

\* parse_weekly_standings without the try/except around the walk
parse_weekly_standings_unguarded(data) ==
    IF StandingsTry(data).raised THEN Propagated ELSE Returned(StandingsTry(data).result)

\* `except Exception` prints and falls through to `return result`
parse_weekly_standings(data) == Returned(StandingsTry(data).result)

-----------------------------------------------------------------------------
(* The trees, keys and defaults safe_get is called with *)

MaxPathLen == 3

ch_a == <<"a">>
ch_0 == <<"0">>
ch_1 == <<"1">>

SgKeyNames == {ch_a, ch_0, ch_1}
SgLeaves == {None, PyInt(1), PyStr(<<"s">>)}
SgValues == SgLeaves \ {None}
SgPathKeys == {PyStr(ch_a), PyStr(ch_0), PyInt(0 - 1), PyInt(0), PyInt(1), PyInt(2)}
SgDefaults == {None, PyStr(<<"d">>)}

Dicts1(K, V) == {PyDict(<<k>>, <<v>>) : k \in K, v \in V}
Dicts2(K, V) == {PyDict(<<k[1], k[2]>>, <<v, w>>) : k \in {x \in K \X K : x[1] # x[2]}, v \in V, w \in V}
Lists1(V) == {PyList(<<v>>) : v \in V}
Lists2(V) == {PyList(<<v, w>>) : v \in V, w \in V}
Empties == {PyDict(<<>>, <<>>), PyList(<<>>)}
Containers(K, V) == Empties \cup Dicts1(K, V) \cup Dicts2(K, V) \cup Lists1(V) \cup Lists2(V)
Wraps(K, V) == Dicts1(K, V) \cup Lists1(V)

\* depth at most 1: scalars, empty containers, one-entry containers
SgFlat == SgLeaves \cup Empties \cup Dicts1(SgKeyNames, SgValues) \cup Lists1({None, PyInt(1)})
\* depth at most 2, containers of up to two entries
SgWide == Containers(SgKeyNames, SgFlat)
\* chains of depth 3 and 4 that end in a dict holding "a"
SgChain3 == Wraps(SgKeyNames, Wraps({ch_0, ch_a}, Dicts1({ch_a, ch_1}, SgValues)))
SgChain4 == Wraps({ch_0}, SgChain3)
\* two entries, each holding "a" directly or one level down
SgHolders == Dicts1({ch_a}, SgValues) \cup Wraps({ch_0}, Dicts1({ch_a}, SgValues))
SgOrdered == Dicts2({ch_0, ch_1}, SgHolders) \cup Lists2(SgHolders) \cup Wraps({ch_1}, Dicts2({ch_0, ch_1}, SgHolders))

\* {"0": {"a": 1}, "1": {"a": 2}}, and a dict whose one value holds "a" both
\* in an inner dict and, after it, directly: {"1": {"0": {"a": 1}, "a": "s"}}
SgExamples == {
    PyDict(<<ch_0, ch_1>>, <<PyDict(<<ch_a>>, <<PyInt(1)>>), PyDict(<<ch_a>>, <<PyInt(2)>>)>>),
    PyDict(<<ch_1>>, <<PyDict(<<ch_0, ch_a>>, <<PyDict(<<ch_a>>, <<PyInt(1)>>), PyStr(<<"s">>)>>)>>),
    PyList(<<PyDict(<<ch_0, ch_a>>, <<PyDict(<<ch_a>>, <<PyInt(1)>>), PyStr(<<"s">>)>>)>>) }

SgTrees == SgFlat \cup SgWide \cup SgChain3 \cup SgChain4 \cup SgOrdered \cup SgExamples

-----------------------------------------------------------------------------
(* The specification of safe_get: Init is the call, one action per way an *)
(* iteration of the loop ends *)

SgInit ==
    /\ sg_root \in SgTrees
    /\ sg_default \in SgDefaults
    /\ sg_keys = <<>>
    /\ sg_d = sg_root
    /\ sg_at = None
    /\ sg_pc = "loop"
    /\ sg_ret = None
    /\ p_fn = "idle" /\ p_data = None /\ p_pc = "idle" /\ p_out = Returned(<<>>)
    /\ MainIdle /\ SaveIdle /\ CallsIdle /\ H2HIdle /\ TokenIdle

\* the key is resolved: `d = ...; continue`
SgDescend(key) ==
    /\ sg_pc = "loop"
    /\ Len(sg_keys) < MaxPathLen
    /\ SafeGetStep(sg_d, key).found
    /\ sg_keys' = Append(sg_keys, key)
    /\ sg_at' = sg_d
    /\ sg_d' = SafeGetStep(sg_d, key).d
    /\ UNCHANGED <<sg_root, sg_default, sg_pc, sg_ret, p_vars, m_vars, sv_vars, c_vars, h_vars, t_vars>>

\* the key is not resolved: `return default` (or an exception leaves the call)
SgReturnDefault(key) ==
    /\ sg_pc = "loop"
    /\ Len(sg_keys) < MaxPathLen
    /\ ~SafeGetStep(sg_d, key).found
    /\ sg_keys' = Append(sg_keys, key)
    /\ sg_at' = sg_d
    /\ sg_pc' = IF SafeGetStep(sg_d, key).raised THEN "raised" ELSE "returned"
    /\ sg_ret' = IF SafeGetStep(sg_d, key).raised THEN None ELSE sg_default
    /\ UNCHANGED <<sg_root, sg_default, sg_d, p_vars, m_vars, sv_vars, c_vars, h_vars, t_vars>>

\* the keys are exhausted: `return d`
SgReturnNode ==
    /\ sg_pc = "loop"
    /\ sg_pc' = "returned"
    /\ sg_ret' = sg_d
    /\ UNCHANGED <<sg_root, sg_default, sg_keys, sg_d, sg_at, p_vars, m_vars, sv_vars, c_vars, h_vars, t_vars>>

SgNext ==
    \/ \E key \in SgPathKeys : SgDescend(key)
    \/ \E key \in SgPathKeys : SgReturnDefault(key)
    \/ SgReturnNode

SpecSafeGet == SgInit /\ [][SgNext]_vars

-----------------------------------------------------------------------------
(* The responses the parsers are called with, in the shape the API sends *)

MaxTeams == 3

StatEntry(stat_id, value) == PyDict(<<s_stat>>, <<PyDict(<<s_stat_id, s_value>>, <<stat_id, value>>)>>)
TeamInfo(team_id) == PyList(<<PyDict(<<s_team_key>>, <<PyStr(<<"k">>)>>), PyDict(<<s_team_id>>, <<team_id>>)>>)
StatsPart(stats_lst) == PyDict(<<s_team_stats>>, <<PyDict(<<s_stats>>, <<stats_lst>>)>>)
OutcomeTotals(totals) == PyDict(<<s_team_standings>>, <<PyDict(<<s_rank, s_outcome_totals>>, <<PyInt(1), totals>>)>>)
StandingsPart(percentage) == OutcomeTotals(PyDict(<<s_percentage>>, <<percentage>>))
TeamNode(parts) == PyDict(<<s_team>>, <<PyList(parts)>>)
Team(team_id, stats_lst, percentage) == TeamNode(<<TeamInfo(team_id), StatsPart(stats_lst), StandingsPart(percentage)>>)

\* {"0": t1, "1": t2, ..., "count": n}
Counted(items) ==
    PyDict([i \in 1..(Len(items) + 1) |-> IF i <= Len(items) THEN IntToStr(i - 1) ELSE s_count],
           [i \in 1..(Len(items) + 1) |-> IF i <= Len(items) THEN items[i] ELSE PyInt(Len(items))])

Matchup(teams) == PyDict(<<s_matchup>>, <<PyDict(<<ch_0>>, <<PyDict(<<s_teams>>, <<teams>>)>>)>>)

\* the teams two by two, one matchup per pair
Pairs(teams) ==
    [m \in 1..((Len(teams) + 1) \div 2) |->
        Matchup(Counted(SubSeq(teams, 2 * m - 1, IF 2 * m <= Len(teams) THEN 2 * m ELSE Len(teams))))]

League(name, body) ==
    PyDict(<<s_fantasy_content>>, <<PyDict(<<s_league>>, <<PyList(<<PyDict(<<s_team_key>>, <<PyStr(<<"k">>)>>), PyDict(<<name>>, <<body>>)>>)>>)>>)

ScoreboardOf(matchups) == League(s_scoreboard, PyDict(<<ch_0>>, <<PyDict(<<s_matchups>>, <<matchups>>)>>))
ScoreboardResponse(teams) == ScoreboardOf(Counted(Pairs(teams)))
StandingsOf(teams) == League(s_standings, PyList(<<PyDict(<<s_teams>>, <<teams>>)>>))
StandingsResponse(teams) == StandingsOf(Counted(teams))

SeqsUpTo(V, n) == UNION {[1..k -> V] : k \in 0..n}

GoodStatsA == PyList(<<StatEntry(PyStr(<<"1", "2">>), PyStr(<<"1", "0", "0">>)), StatEntry(ID_FG, PyStr(<<"7", "/", "1", "2">>))>>)
GoodStatsB == PyList(<<StatEntry(PyStr(<<"1", "5">>), PyInt(40))>>)
GoodA == Team(PyStr(<<"3">>), GoodStatsA, PyStr(<<"0", ".", "6", "2", "5">>))
GoodB == Team(PyStr(<<"7">>), GoodStatsB, PyStr(<<>>))

\* a team whose id no manager has, with stat ids the table lacks
UnknownIds == Team(PyStr(<<"3", "3">>), PyList(<<StatEntry(PyStr(<<"9", "9">>), PyStr(<<"5">>)), StatEntry(PyStr(<<"1", "2">>), PyStr(<<"1", "0", "0">>)), StatEntry(PyStr(<<"9", "8">>), PyInt(6))>>), PyStr(<<".", "5">>))

\* a team with two stat ids the table lacks and a composite stat
UnknownAndComposite == Team(PyStr(<<"3">>), PyList(<<StatEntry(PyStr(<<"9", "9">>), PyStr(<<"5">>)), StatEntry(PyStr(<<"9", "8">>), PyStr(<<"6">>)), StatEntry(ID_FG, PyStr(<<"7", "/", "1", "2">>))>>), PyStr(<<".", "5">>))

\* a team whose composite stats carry their ids as ints
IntComposites == Team(PyStr(<<"3">>), PyList(<<StatEntry(PyInt(9007006), PyStr(<<"3", "/", "4">>)), StatEntry(PyInt(9004003), PyStr(<<"7", "/", "1", "2">>)), StatEntry(PyStr(<<"1", "2">>), PyStr(<<"1", "0", "0">>))>>), PyStr(<<".", "5">>))

\* teams as the responses carry them, well-formed and not
TeamShapes == {
    GoodA,
    GoodB,
    PyInt(5),
    EmptyDict,
    TeamNode(<<TeamInfo(PyStr(<<"1">>))>>),
    TeamNode(<<TeamInfo(PyStr(<<"1">>)), PyList(<<>>), StandingsPart(PyStr(<<".", "5">>))>>),
    TeamNode(<<TeamInfo(PyStr(<<"1">>)), EmptyDict, StandingsPart(PyStr(<<".", "5">>))>>),
    Team(PyStr(<<"2">>), PyList(<<StatEntry(ID_FG, PyStr(<<"b", "a", "d">>))>>), PyStr(<<".", "5">>)),
    TeamNode(<<TeamInfo(PyStr(<<"4">>)), StatsPart(GoodStatsB), OutcomeTotals(EmptyDict)>>) }

\* stat entries: known, unknown and int ids, composites good and bad, missing fields
StatShapes == {
    StatEntry(PyStr(<<"1", "2">>), PyStr(<<"1", "0", "0">>)),
    StatEntry(PyStr(<<"1", "5">>), PyInt(40)),
    StatEntry(PyStr(<<"9", "9">>), PyStr(<<"5">>)),
    StatEntry(PyStr(<<"9", "8">>), PyStr(<<"6">>)),
    StatEntry(PyInt(12), PyStr(<<"1", "0", "0">>)),
    StatEntry(None, PyStr(<<"1">>)),
    StatEntry(PyInt(9004003), PyStr(<<"7", "/", "1", "2">>)),
    StatEntry(ID_FG, PyStr(<<"7", "/", "1", "2">>)),
    StatEntry(ID_FT, PyStr(<<" ", "3", "/", "+", "4">>)),
    StatEntry(ID_FG, PyStr(<<"b", "a", "d">>)),
    StatEntry(ID_FG, PyStr(<<"7">>)),
    StatEntry(ID_FT, PyStr(<<"7", "/", "1", "/", "2">>)),
    StatEntry(ID_FT, PyStr(<<"7", "/", "x">>)),
    StatEntry(ID_FG, PyStr(<<"/", "7">>)),
    StatEntry(ID_FG, PyInt(7)),
    StatEntry(ID_FT, None),
    PyDict(<<s_stat>>, <<PyDict(<<s_value>>, <<PyStr(<<"1">>)>>)>>),
    PyDict(<<s_stat>>, <<PyDict(<<s_stat_id>>, <<PyStr(<<"5">>)>>)>>),
    EmptyDict,
    PyStr(<<"x">>) }

\* every stat id of the lookup table, in the table's order
TableIds == <<<<"5">>, <<"8">>, <<"1", "0">>, <<"1", "2">>, <<"1", "5">>, <<"1", "6">>, <<"1", "7">>, <<"1", "8">>, <<"1", "9">>, <<"9", "0", "0", "4", "0", "0", "3">>, <<"9", "0", "0", "7", "0", "0", "6">>>>

\* the stats list that carries, in table order, the table ids chosen by pick
RECURSIVE StatsOfIds(_, _)
StatsOfIds(i, pick) ==
    IF i > Len(TableIds) THEN <<>>
    ELSE (IF i \in pick THEN <<StatEntry(PyStr(TableIds[i]), IF PyStr(TableIds[i]) \in {ID_FG, ID_FT} THEN PyStr(<<"7", "/", "1", "2">>) ELSE PyStr(<<"1">>))>> ELSE <<>>)
         \o StatsOfIds(i + 1, pick)

\* the choices of table ids: a few of them, or all but a few
IdPicks == {pick \in SUBSET (1..Len(TableIds)) : Cardinality(pick) <= 2 \/ Cardinality(pick) >= Len(TableIds) - 2}

FullStats == PyList(StatsOfIds(1, 1..Len(TableIds)))

\* the source percentage field
PercentageShapes == {PyStr(<<"0", ".", "6", "2", "5">>), PyStr(<<".", "5">>), PyStr(<<"1">>), PyStr(<<"0">>), PyStr(<<>>), PyStr(<<" ", "0", ".", "2", "5", " ">>), PyStr(<<"-", "0", ".", "5">>), PyStr(<<"x">>), PyStr(<<"1", ".", "2", ".", "3">>), PyInt(0), PyInt(1), None,
                     PyFloat(625, 3), PyFloat(0, 0), PyList(<<>>), PyList(<<PyInt(1)>>)}

\* the third element of a team, with and without the percentage
StandingsShapes == {StandingsPart(x) : x \in PercentageShapes}
    \cup {OutcomeTotals(EmptyDict), PyDict(<<s_team_standings>>, <<EmptyDict>>), EmptyDict, None}

\* teams under keys that are not their position
TeamKeys == {ch_0, ch_1, <<"2">>, <<"x">>, <<" ", "7">>}
KeyedTeams == {PyDict(<<k>>, <<t>>) : k \in TeamKeys, t \in {GoodA, GoodB}}
    \cup {PyDict(<<k[1], k[2]>>, <<t, u>>) : k \in {x \in TeamKeys \X TeamKeys : x[1] # x[2]}, t \in {GoodA}, u \in {GoodA, GoodB}}

\* the sub-tree the parser selects is missing or no dict
Envelopes(name) == {
    None,
    EmptyDict,
    PyDict(<<s_fantasy_content>>, <<None>>),
    PyDict(<<s_fantasy_content>>, <<PyDict(<<s_league>>, <<PyList(<<>>)>>)>>),
    League(name, None),
    League(name, EmptyDict),
    League(name, PyList(<<>>)),
    League(name, PyList(<<PyList(<<GoodA>>)>>)) }

ScoreboardInputs ==
    {ScoreboardResponse(ts) : ts \in SeqsUpTo(TeamShapes, MaxTeams)}
    \cup {ScoreboardResponse(<<Team(PyStr(<<"3">>), PyList(st), PyStr(<<".", "5">>))>>) : st \in SeqsUpTo(StatShapes, 2)}
    \cup {ScoreboardResponse(<<Team(PyStr(<<"3">>), PyList(StatsOfIds(1, pick)), PyStr(<<".", "5">>))>>) : pick \in IdPicks}
    \cup {ScoreboardResponse(<<Team(PyStr(<<"1">>), FullStats, PyStr(<<".", "5">>)), Team(PyStr(<<"2">>), FullStats, PyStr(<<".", "5">>)), Team(PyStr(<<"3", "3">>), FullStats, PyStr(<<".", "5">>)), Team(PyStr(<<"1", "0">>), FullStats, PyStr(<<".", "5">>))>>)}
    \cup {ScoreboardResponse(<<GoodB, UnknownIds>>)}
    \cup {ScoreboardResponse(<<UnknownAndComposite>>)}
    \cup {ScoreboardResponse(<<IntComposites>>), ScoreboardResponse(<<GoodA, IntComposites>>)}
    \cup {ScoreboardOf(PyList(<<Matchup(Counted(<<GoodA>>))>>)), ScoreboardOf(PyDict(<<ch_0>>, <<Matchup(PyList(<<GoodA>>))>>))}
    \cup {ScoreboardOf(Counted(<<Matchup(ts)>>)) : ts \in KeyedTeams}
    \cup Envelopes(s_scoreboard)

StandingsInputs ==
    {StandingsResponse(ts) : ts \in SeqsUpTo(TeamShapes, MaxTeams)}
    \cup {StandingsResponse(<<Team(PyStr(<<"3">>), PyList(st), PyStr(<<".", "5">>))>>) : st \in SeqsUpTo(StatShapes, 2)}
    \cup {StandingsResponse(<<GoodB, TeamNode(<<TeamInfo(PyStr(<<"3">>)), StatsPart(GoodStatsA), sp>>), GoodA>>) : sp \in StandingsShapes}
    \cup {StandingsResponse(<<GoodB, TeamNode(<<TeamInfo(PyStr(<<"3">>)), StatsPart(GoodStatsA)>>), GoodA>>)}
    \cup {StandingsResponse(<<GoodB, UnknownIds>>)}
    \cup {StandingsResponse(<<UnknownAndComposite>>)}
    \cup {StandingsResponse(<<IntComposites>>), StandingsResponse(<<GoodA, IntComposites>>)}
    \cup {StandingsOf(PyList(<<GoodA>>))}
    \cup {StandingsOf(ts) : ts \in KeyedTeams}
    \cup Envelopes(s_standings)

-----------------------------------------------------------------------------
(* The specification of the parsers: Init is a call of one parser on one *)
(* response, and the call runs to its end in one action *)

ParseInit ==
    /\ p_fn \in {"scoreboard", "standings"}
    /\ p_data \in (IF p_fn = "scoreboard" THEN ScoreboardInputs ELSE StandingsInputs)
    /\ p_pc = "called"
    /\ p_out = Returned(<<>>)
    /\ sg_root = None /\ sg_default = None /\ sg_keys = <<>> /\ sg_d = None
    /\ sg_at = None /\ sg_pc = "idle" /\ sg_ret = None
    /\ MainIdle /\ SaveIdle /\ CallsIdle /\ H2HIdle /\ TokenIdle

ParseScoreboard ==
    /\ p_pc = "called" /\ p_fn = "scoreboard"
    /\ p_out' = parse_weekly_scoreboard(p_data)
    /\ p_pc' = "done"
    /\ UNCHANGED <<p_fn, p_data, sg_vars, m_vars, sv_vars, c_vars, h_vars, t_vars>>

ParseStandings ==
    /\ p_pc = "called" /\ p_fn = "standings"
    /\ p_out' = parse_weekly_standings(p_data)
    /\ p_pc' = "done"
    /\ UNCHANGED <<p_fn, p_data, sg_vars, m_vars, sv_vars, c_vars, h_vars, t_vars>>

ParseNext == ParseScoreboard \/ ParseStandings

SpecParse == ParseInit /\ [][ParseNext]_vars

-----------------------------------------------------------------------------
(* The weekly run of main(), from the accepted week number to the exit.    *)
(* A response file is [exists, json, data]: whether the file is there,     *)
(* whether json.load accepts it, and the value json.load gives.            *)

NoFile == [exists |-> FALSE, json |-> FALSE, data |-> None]
BrokenFile == [exists |-> TRUE, json |-> FALSE, data |-> None]
JsonFile(body) == [exists |-> TRUE, json |-> TRUE, data |-> body]

\* what the API may answer with status 200
ScoreboardBodies == {ScoreboardResponse(<<GoodA, GoodB>>), ScoreboardResponse(<<GoodA, EmptyDict>>), League(s_scoreboard, None)}
StandingsBodies == {StandingsResponse(<<GoodA, GoodB>>), StandingsResponse(<<GoodA, Team(PyStr(<<"2">>), PyList(<<StatEntry(ID_FG, PyStr(<<"b", "a", "d">>))>>), PyStr(<<".", "5">>))>>), League(s_standings, None)}

\* the parameters of the parsers, none with a default
parse_weekly_scoreboard_params == {"data"}
parse_weekly_standings_params == {"data", "week"}

\* a call that passes every argument by keyword binds when the keywords are
\* exactly the parameters; else TypeError
Binds(params, kwargs) == kwargs = params

NotSaved == [written |-> FALSE, records |-> <<>>]
Saved(records) == [written |-> TRUE, records |-> records]

\* the response files are left over from an earlier run of the same week, or absent
MainInit ==
    /\ m_pc = "fetch_standings"
    /\ m_files \in [sb : {NoFile, BrokenFile} \cup {JsonFile(b) : b \in ScoreboardBodies},
                    st : {NoFile, BrokenFile} \cup {JsonFile(b) : b \in StandingsBodies}]
    /\ m_flags = [sb |-> FALSE, st |-> FALSE]
    /\ m_parsed = [sb |-> FALSE, st |-> FALSE]
    /\ m_saved = [sb |-> NotSaved, st |-> NotSaved]
    /\ m_rendered = {}
    /\ m_exit = "running"
    /\ sg_root = None /\ sg_default = None /\ sg_keys = <<>> /\ sg_d = None
    /\ sg_at = None /\ sg_pc = "idle" /\ sg_ret = None
    /\ p_fn = "idle" /\ p_data = None /\ p_pc = "idle" /\ p_out = Returned(<<>>)
    /\ SaveIdle /\ CallsIdle /\ H2HIdle /\ TokenIdle

\* get_league_standings(week): the response is saved on status 200; any
\* other status and any exception leave the file as it was
MainFetchStandings ==
    /\ m_pc = "fetch_standings"
    /\ \E f \in {m_files.st} \cup {JsonFile(b) : b \in StandingsBodies} :
           m_files' = [m_files EXCEPT !.st = f]
    /\ m_pc' = "fetch_scoreboard"
    /\ UNCHANGED <<m_flags, m_parsed, m_saved, m_rendered, m_exit, sg_vars, p_vars, sv_vars, c_vars, h_vars, t_vars>>

\* get_league_weekly_scoreboard(week)
MainFetchScoreboard ==
    /\ m_pc = "fetch_scoreboard"
    /\ \E f \in {m_files.sb} \cup {JsonFile(b) : b \in ScoreboardBodies} :
           m_files' = [m_files EXCEPT !.sb = f]
    /\ m_pc' = "scoreboard"
    /\ UNCHANGED <<m_flags, m_parsed, m_saved, m_rendered, m_exit, sg_vars, p_vars, sv_vars, c_vars, h_vars, t_vars>>

\* the scoreboard block: the flag, json.load, the parser call with the
\* keywords data and week, save_parsed_response_to_file (which catches its
\* own errors); an exception on the way ends the run with a traceback
MainScoreboard ==
    /\ m_pc = "scoreboard"
    /\ m_flags' = [m_flags EXCEPT !.sb = m_files.sb.exists]
    /\ IF ~m_files.sb.exists
       THEN m_pc' = "standings" /\ UNCHANGED <<m_parsed, m_saved, m_exit>>
       ELSE IF \/ ~m_files.sb.json
               \/ ~Binds(parse_weekly_scoreboard_params, {"data", "week"})
               \/ parse_weekly_scoreboard(m_files.sb.data).raised
       THEN m_pc' = "exited" /\ m_exit' = "traceback" /\ UNCHANGED <<m_parsed, m_saved>>
       ELSE /\ m_parsed' = [m_parsed EXCEPT !.sb = TRUE]
            /\ \E written \in BOOLEAN :
                   m_saved' = [m_saved EXCEPT !.sb = IF written THEN Saved(parse_weekly_scoreboard(m_files.sb.data).result) ELSE @]
            /\ m_pc' = "standings"
            /\ UNCHANGED m_exit
    /\ UNCHANGED <<m_files, m_rendered, sg_vars, p_vars, sv_vars, c_vars, h_vars, t_vars>>

\* the standings block
MainStandings ==
    /\ m_pc = "standings"
    /\ m_flags' = [m_flags EXCEPT !.st = m_files.st.exists]
    /\ IF ~m_files.st.exists
       THEN m_pc' = "check" /\ UNCHANGED <<m_parsed, m_saved, m_exit>>
       ELSE IF \/ ~m_files.st.json
               \/ ~Binds(parse_weekly_standings_params, {"data", "week"})
               \/ parse_weekly_standings(m_files.st.data).raised
       THEN m_pc' = "exited" /\ m_exit' = "traceback" /\ UNCHANGED <<m_parsed, m_saved>>
       ELSE /\ m_parsed' = [m_parsed EXCEPT !.st = TRUE]
            /\ \E written \in BOOLEAN :
                   m_saved' = [m_saved EXCEPT !.st = IF written THEN Saved(parse_weekly_standings(m_files.st.data).result) ELSE @]
            /\ m_pc' = "check"
            /\ UNCHANGED m_exit
    /\ UNCHANGED <<m_files, m_rendered, sg_vars, p_vars, sv_vars, c_vars, h_vars, t_vars>>

\* sys.exit(1) when neither file was there
MainExitCheck ==
    /\ m_pc = "check"
    /\ IF ~m_flags.st /\ ~m_flags.sb
       THEN m_pc' = "exited" /\ m_exit' = "failure"
       ELSE m_pc' = "visualize" /\ UNCHANGED m_exit
    /\ UNCHANGED <<m_files, m_flags, m_parsed, m_saved, m_rendered, sg_vars, p_vars, sv_vars, c_vars, h_vars, t_vars>>

StandingsCharts == {"standings_bump_chart"}
ScoreboardCharts == {"totals_table", "ranking_table", "head_to_head"}

\* the visualizations of the data kinds whose flag is set; each catches the
\* errors of its drawing
MainVisualize ==
    /\ m_pc = "visualize"
    /\ m_rendered' = (IF m_flags.st THEN StandingsCharts ELSE {}) \cup (IF m_flags.sb THEN ScoreboardCharts ELSE {})
    /\ m_pc' = "exited"
    /\ m_exit' = "ok"
    /\ UNCHANGED <<m_files, m_flags, m_parsed, m_saved, sg_vars, p_vars, sv_vars, c_vars, h_vars, t_vars>>

MainNext ==
    \/ MainFetchStandings
    \/ MainFetchScoreboard
    \/ MainScoreboard
    \/ MainStandings
    \/ MainExitCheck
    \/ MainVisualize

SpecMain == MainInit /\ [][MainNext]_vars

-----------------------------------------------------------------------------
(* Claims about safe_get, checked under SpecSafeGet *)

Last(q) == q[Len(q)]

\* no dict among the values of the dict v contains the str k
NoInnerHolds(v, k) == \A j \in 1..Len(v.vs) : IsDict(v.vs[j]) => ~HasKey(v.vs[j], k)

\* the key cannot be resolved at node d: d is a scalar or None, the key is
\* nowhere in the mapping nor in the nested mappings searched for it, or it
\* is no valid index of the sequence
Unresolved(d, key) ==
    \/ ~IsDict(d) /\ ~IsList(d)
    \/ /\ IsDict(d) /\ IsInt(key)
       /\ ~HasKey(d, IntToStr(key.n))
    \/ /\ IsDict(d) /\ IsStr(key)
       /\ ~HasKey(d, key.s)
       /\ \A i \in 1..Len(d.vs) : IsDict(d.vs[i]) => ~HasKey(d.vs[i], key.s) /\ NoInnerHolds(d.vs[i], key.s)
    \/ /\ IsList(d) /\ IsInt(key)
       /\ ~(key.n \in 0..(Len(d.vs) - 1))
    \/ /\ IsList(d) /\ IsStr(key)
       /\ \A i \in 1..Len(d.vs) : IsDict(d.vs[i]) => ~HasKey(d.vs[i], key.s) /\ NoInnerHolds(d.vs[i], key.s)

\* C1: safe_get never raises, and when the last key looked up cannot be
\* resolved at the node reached the call returns exactly the default.
C1_DefaultWhenUnresolved ==
    /\ sg_pc # "raised"
    /\ (sg_pc = "returned" /\ sg_keys # <<>> /\ Unresolved(sg_at, Last(sg_keys))) => sg_ret = sg_default

\* a second key that is a negative index of a list, with a default other than None
C1_Witness ==
    /\ sg_pc = "returned"
    /\ Len(sg_keys) = 2
    /\ IsList(sg_at) /\ Len(sg_at.vs) = 1
    /\ Last(sg_keys) = PyInt(0 - 1)
    /\ sg_default # None
    /\ sg_ret = sg_default

-----------------------------------------------------------------------------
(* Claims about the parsers, checked under SpecParse *)

\* d[k1][k2]..., every subscript strict
RECURSIVE StrictGet(_, _)
StrictGet(d, keys) ==
    IF keys = <<>> THEN Ok(d)
    ELSE IF ~Subscript(d, Head(keys)).ok THEN Raise
    ELSE StrictGet(Subscript(d, Head(keys)).val, Tail(keys))

RECURSIVE Flatten(_)
Flatten(seqs) == IF seqs = <<>> THEN <<>> ELSE Head(seqs) \o Flatten(Tail(seqs))

\* the response as the API sends it: where the matchups and the teams are
SbMatchups(data) == StrictGet(data, <<PyStr(s_fantasy_content), PyStr(s_league), PyInt(1), PyStr(s_scoreboard), PyStr(ch_0), PyStr(s_matchups)>>)
MatchupTeamsOf(m) == StrictGet(m, <<PyStr(s_matchup), PyStr(ch_0), PyStr(s_teams)>>)
StTeams(data) == StrictGet(data, <<PyStr(s_fantasy_content), PyStr(s_league), PyInt(1), PyStr(s_standings), PyInt(0), PyStr(s_teams)>>)

StandardShape(fn, data) ==
    IF fn = "scoreboard"
    THEN /\ SbMatchups(data).ok /\ IsDict(SbMatchups(data).val)
         /\ \A i \in 1..Len(SbMatchups(data).val.vs) :
                IsDict(SbMatchups(data).val.vs[i]) =>
                    MatchupTeamsOf(SbMatchups(data).val.vs[i]).ok /\ IsDict(MatchupTeamsOf(SbMatchups(data).val.vs[i]).val)
    ELSE StTeams(data).ok /\ IsDict(StTeams(data).val)

\* the entries of a teams dict that are teams (dicts), as <<key, team>>, in order
TeamEntries(teams) ==
    LET pairs == [i \in 1..Len(teams.ks) |-> <<teams.ks[i], teams.vs[i]>>]
        isTeam(e) == IsDict(e[2])
    IN  SelectSeq(pairs, isTeam)

\* the teams of a response of the standard shape, in source order
TeamsOf(fn, data) ==
    IF fn = "scoreboard"
    THEN LET ms == SelectSeq(SbMatchups(data).val.vs, IsDict)
         IN  Flatten([i \in 1..Len(ms) |-> TeamEntries(MatchupTeamsOf(ms[i]).val)])
    ELSE TeamEntries(StTeams(data).val)

\* how the walk of one team ends
TeamOutcome(fn, e) == IF fn = "scoreboard" THEN ScoreboardTeam(e[2]) ELSE StandingsTeam(e[1], e[2])

\* the stats list of a team, when the team has one
StatsOf(team) == StrictGet(team, <<PyStr(s_team), PyInt(1), PyStr(s_team_stats), PyStr(s_stats)>>)

\* a stat entry with both fields
HasFields(stat) ==
    /\ StrictGet(stat, <<PyStr(s_stat), PyStr(s_stat_id)>>).ok
    /\ StrictGet(stat, <<PyStr(s_stat), PyStr(s_value)>>).ok
StatId(stat) == StrictGet(stat, <<PyStr(s_stat), PyStr(s_stat_id)>>).val
StatValue(stat) == StrictGet(stat, <<PyStr(s_stat), PyStr(s_value)>>).val

\* the expected sub-structure of a team is missing: no 'team' entry, fewer
\* than two elements, no 'team_stats' or 'stats', a stat without a field
MissingStructure(team) ==
    \/ ~Subscript(team, PyStr(s_team)).ok
    \/ ~IsList(Subscript(team, PyStr(s_team)).val)
    \/ Len(Subscript(team, PyStr(s_team)).val.vs) < 2
    \/ /\ IsDict(StrictGet(team, <<PyStr(s_team), PyInt(1)>>).val)
       /\ \/ ~StatsOf(team).ok
          \/ ~IsList(StatsOf(team).val)
          \/ \E i \in 1..Len(StatsOf(team).val.vs) : ~HasFields(StatsOf(team).val.vs[i])

ParsedAs(fn) == p_pc = "done" /\ p_fn = fn /\ StandardShape(fn, p_data)

\* the records of the entries es whose walk emits one, in order
RECURSIVE RecordsOf(_, _)
RecordsOf(fn, es) ==
    IF es = <<>> THEN <<>>
    ELSE (IF TeamOutcome(fn, Head(es)).kind = "record" THEN <<TeamOutcome(fn, Head(es)).rec>> ELSE <<>>)
         \o RecordsOf(fn, Tail(es))

\* the number of the first entry whose walk raises, Len(es) + 1 when none does
FirstRaise(fn, es) ==
    IF \E i \in 1..Len(es) : TeamOutcome(fn, es[i]).kind = "raise"
    THEN CHOOSE i \in 1..Len(es) : TeamOutcome(fn, es[i]).kind = "raise" /\ \A j \in 1..(i - 1) : TeamOutcome(fn, es[j]).kind # "raise"
    ELSE Len(es) + 1

\* C2 (as claimed): with exactly one team whose sub-structure is missing,
\* parse_weekly_scoreboard returns a record for every other team, so one
\* record less than the response has teams.
C2_SkipsMalformedTeam ==
    LET es == TeamsOf("scoreboard", p_data)
    IN  (/\ ParsedAs("scoreboard")
         /\ \E i \in 1..Len(es) :
                /\ MissingStructure(es[i][2])
                /\ \A j \in 1..Len(es) : j # i => TeamOutcome("scoreboard", es[j]).kind = "record")
        => ~p_out.raised /\ Len(p_out.result) = Len(es) - 1

\* C3 (as claimed): parse_weekly_scoreboard never lets an exception out.
C3_ScoreboardNeverRaises == (p_pc = "done" /\ p_fn = "scoreboard") => ~p_out.raised

\* C4: parse_weekly_standings never raises, and when the walk of team i
\* raises it returns the records of the teams before i, in their order.
C4_StandingsPartialResult ==
    /\ (p_pc = "done" /\ p_fn = "standings") => ~p_out.raised
    /\ ParsedAs("standings") =>
           LET es == TeamsOf("standings", p_data)
           IN  p_out.result = RecordsOf("standings", SubSeq(es, 1, FirstRaise("standings", es) - 1))

\* the walk of the second or third team raises after a record was emitted
C4_Witness ==
    /\ ParsedAs("standings")
    /\ FirstRaise("standings", TeamsOf("standings", p_data)) \in 2..Len(TeamsOf("standings", p_data))
    /\ Len(p_out.result) >= 1
    /\ Len(p_out.result) < Len(TeamsOf("standings", p_data))

\* str(value) splits on "/" into exactly two parts that int() accepts
GoodSplit(value) ==
    LET parts == Split(PyStrOf(value), "/")
    IN  Len(parts) = 2 /\ IntOfStr(parts[1]).ok /\ IntOfStr(parts[2]).ok

IsComposite(stat) == StatId(stat) \in {ID_FG, ID_FT}

\* a team whose stats all have their fields
HasStats(team) ==
    /\ ~MissingStructure(team)
    /\ StatsOf(team).ok /\ IsList(StatsOf(team).val)

\* a team with a composite stat whose value does not split into two ints
BadCompositeTeam(team) ==
    /\ HasStats(team)
    /\ \E i \in 1..Len(StatsOf(team).val.vs) :
           IsComposite(StatsOf(team).val.vs[i]) /\ ~GoodSplit(StatValue(StatsOf(team).val.vs[i]))

\* team number i is the first with a malformed composite value, and the walk
\* of no team before it raises
MalformedAt(fn, es, i) ==
    /\ i \in 1..Len(es)
    /\ BadCompositeTeam(es[i][2])
    /\ \A j \in 1..(i - 1) : TeamOutcome(fn, es[j]).kind # "raise"

MapHas(m, k) == \E i \in 1..Len(m.ks) : m.ks[i] = k
MapGet(m, k) == m.vs[CHOOSE i \in 1..Len(m.ks) : m.ks[i] = k]

\* the only team of a response, with its stats and a percentage of ".5"
OnlyTeam(fn) ==
    /\ ParsedAs(fn)
    /\ Len(TeamsOf(fn, p_data)) = 1
    /\ HasStats(TeamsOf(fn, p_data)[1][2])
    /\ StrictGet(TeamsOf(fn, p_data)[1][2], <<PyStr(s_team), PyInt(2)>>) = Ok(StandingsPart(PyStr(<<".", "5">>)))
    /\ IntOfStr(TeamsOf(fn, p_data)[1][1]).ok

KindOf(stat) == IF StatId(stat) = ID_FG THEN <<"F", "G">> ELSE <<"F", "T">>

\* C6: a composite id with a value "m/a" of two integers writes exactly the
\* keys <Kind>M = int(m) and <Kind>A = int(a) and no "FGM/FGA" or "FTM/FTA"
\* key; a value that does not split so makes the decoding fail, so that no
\* record comes out of it.
C6_CompositeDecode ==
    \A fn \in {"scoreboard", "standings"} :
        OnlyTeam(fn) =>
            LET st == StatsOf(TeamsOf(fn, p_data)[1][2]).val.vs
                comp == {i \in 1..Len(st) : IsComposite(st[i])}
                last(i) == \A j \in comp : j > i => StatId(st[j]) # StatId(st[i])
            IN  IF \E i \in comp : ~GoodSplit(StatValue(st[i]))
                THEN IF fn = "scoreboard" THEN p_out.raised ELSE p_out.result = <<>>
                ELSE /\ ~p_out.raised /\ Len(p_out.result) = 1
                     /\ \A i \in comp :
                            LET parts == Split(PyStrOf(StatValue(st[i])), "/")
                                km == PyStr(KindOf(st[i]) \o <<"M">>)
                                ka == PyStr(KindOf(st[i]) \o <<"A">>)
                            IN  /\ MapHas(p_out.result[1].stats, km) /\ MapHas(p_out.result[1].stats, ka)
                                /\ last(i) => /\ MapGet(p_out.result[1].stats, km) = IntOfStr(parts[1]).val
                                              /\ MapGet(p_out.result[1].stats, ka) = IntOfStr(parts[2]).val
                     /\ (\A i \in 1..Len(st) : IsStr(StatId(st[i]))) =>
                            /\ ~MapHas(p_out.result[1].stats, PyStr(<<"F", "G", "M", "/", "F", "G", "A">>))
                            /\ ~MapHas(p_out.result[1].stats, PyStr(<<"F", "T", "M", "/", "F", "T", "A">>))
                            /\ Len(p_out.result[1].stats.ks) <= Len(st) + Cardinality(comp)

\* the value " 3/+4" under the FT id came out as FTM = 3 and FTA = 4
C6_Witness ==
    /\ OnlyTeam("scoreboard")
    /\ \E i \in 1..Len(StatsOf(TeamsOf("scoreboard", p_data)[1][2]).val.vs) :
           StatsOf(TeamsOf("scoreboard", p_data)[1][2]).val.vs[i] = StatEntry(ID_FT, PyStr(<<" ", "3", "/", "+", "4">>))
    /\ Len(p_out.result) = 1
    /\ MapHas(p_out.result[1].stats, PyStr(<<"F", "T", "M">>))
    /\ MapGet(p_out.result[1].stats, PyStr(<<"F", "T", "M">>)) = PyInt(3)
    /\ MapGet(p_out.result[1].stats, PyStr(<<"F", "T", "A">>)) = PyInt(4)

\* a team whose stats carry pairwise distinct ids of the lookup table, the
\* composite ones with a value of two integers
TableStats(team) ==
    /\ HasStats(team)
    /\ \A i \in 1..Len(StatsOf(team).val.vs) :
           LET stat == StatsOf(team).val.vs[i]
           IN  /\ IsStr(StatId(stat)) /\ StatId(stat).s \in DOMAIN STAT_ID_TO_NAME_MAP
               /\ IsComposite(stat) => GoodSplit(StatValue(stat))
               /\ \A j \in 1..(i - 1) : StatId(StatsOf(team).val.vs[j]) # StatId(stat)

Composites(team) == {i \in 1..Len(StatsOf(team).val.vs) : IsComposite(StatsOf(team).val.vs[i])}

ThirteenKeys == {PyStr(<<"F", "G", "%">>), PyStr(<<"F", "T", "%">>), PyStr(<<"3", "P", "T", "M">>), PyStr(<<"P", "T", "S">>), PyStr(<<"R", "E", "B">>), PyStr(<<"A", "S", "T">>), PyStr(<<"S", "T", "L">>), PyStr(<<"B", "L", "K">>), PyStr(<<"T", "O">>), PyStr(<<"F", "G", "M">>), PyStr(<<"F", "G", "A">>), PyStr(<<"F", "T", "M">>), PyStr(<<"F", "T", "A">>)}

Range(f) == {f[i] : i \in DOMAIN f}

\* C7: a team with s simple and c composite stat entries of distinct table
\* ids gets a stats mapping of s + 2c distinct keys; with the nine simple and
\* the two composite ids these are the thirteen names, and a response of
\* such teams yields one record per team.
C7_KeyCount ==
    LET es == TeamsOf("scoreboard", p_data)
    IN  (ParsedAs("scoreboard") /\ \A i \in 1..Len(es) : TableStats(es[i][2])) =>
            /\ ~p_out.raised
            /\ Len(p_out.result) = Len(es)
            /\ \A i \in 1..Len(es) :
                   LET keys == p_out.result[i].stats.ks
                       n == Len(StatsOf(es[i][2]).val.vs)
                       c == Cardinality(Composites(es[i][2]))
                   IN  /\ Len(keys) = (n - c) + 2 * c
                       /\ Cardinality(Range(keys)) = Len(keys)
                       /\ (n = 11 /\ c = 2) => Range(keys) = ThirteenKeys

\* two matchups of two teams with eleven entries each: four records of thirteen keys
C7_Witness ==
    /\ ParsedAs("scoreboard")
    /\ Len(SbMatchups(p_data).val.vs) = 3
    /\ Len(TeamsOf("scoreboard", p_data)) = 4
    /\ \A i \in 1..4 : TableStats(TeamsOf("scoreboard", p_data)[i][2]) /\ Len(StatsOf(TeamsOf("scoreboard", p_data)[i][2]).val.vs) = 11
    /\ Len(p_out.result) = 4
    /\ \A i \in 1..4 : Len(p_out.result[i].stats.ks) = 13

\* the entries before the first raising one whose walk emits a record
EmittingBeforeRaise(fn, es) ==
    LET emits(e) == TeamOutcome(fn, e).kind = "record"
    IN  SelectSeq(SubSeq(es, 1, FirstRaise(fn, es) - 1), emits)

\* C8: the standing of a record is int(key) + 1 for the key its team is
\* stored under; with the keys "0".."n-1" in order and every team emitted
\* the standings are 1..n in order.
C8_StandingFromKey ==
    LET es == TeamsOf("standings", p_data)
        em == EmittingBeforeRaise("standings", es)
    IN  ParsedAs("standings") =>
            /\ Len(p_out.result) = Len(em)
            /\ \A j \in 1..Len(em) : p_out.result[j].standing = IntOfStr(em[j][1]).val.n + 1
            /\ (Len(em) = Len(es) /\ \A i \in 1..Len(es) : es[i][1] = NatToStr(i - 1)) =>
                   \A j \in 1..Len(es) : p_out.result[j].standing = j

\* the teams stored under "1" and then "0" come out with standings 2 and 1
C8_Witness ==
    /\ ParsedAs("standings")
    /\ Len(TeamsOf("standings", p_data)) = 2
    /\ TeamsOf("standings", p_data)[1][1] = ch_1 /\ TeamsOf("standings", p_data)[2][1] = ch_0
    /\ Len(p_out.result) = 2
    /\ p_out.result[1].standing = 2 /\ p_out.result[2].standing = 1

OutcomeTotalsOf(team) == StrictGet(team, <<PyStr(s_team), PyInt(2), PyStr(s_team_standings), PyStr(s_outcome_totals)>>)

\* a team whose info and stats parse and whose outcome totals are a dict
\* with the percentage missing, falsy or numeric
PercentageInScope(e) ==
    /\ IntOfStr(e[1]).ok
    /\ ScoreboardTeam(e[2]).kind = "record"
    /\ OutcomeTotalsOf(e[2]).ok /\ IsDict(OutcomeTotalsOf(e[2]).val)
    /\ \/ ~HasKey(OutcomeTotalsOf(e[2]).val, s_percentage)
       \/ ~Truthy(GetKey(OutcomeTotalsOf(e[2]).val, s_percentage))
       \/ FloatOf(GetKey(OutcomeTotalsOf(e[2]).val, s_percentage)).ok

\* 0.0 for a missing or falsy percentage, else the value times 100
ClaimedWinRate(totals) ==
    IF ~HasKey(totals, s_percentage) THEN PyFloat(0, 0)
    ELSE IF ~Truthy(GetKey(totals, s_percentage)) THEN PyFloat(0, 0)
    ELSE PyFloat(FloatOf(GetKey(totals, s_percentage)).val.m * 100, FloatOf(GetKey(totals, s_percentage)).val.e)

\* C9 (as claimed): every team gets a record whose win_rate is 0.0 when the
\* source percentage is falsy or missing and 100 times its value otherwise.
C9_WinRate ==
    LET es == TeamsOf("standings", p_data)
    IN  (ParsedAs("standings") /\ \A i \in 1..Len(es) : PercentageInScope(es[i])) =>
            /\ Len(p_out.result) = Len(es)
            /\ \A i \in 1..Len(es) : p_out.result[i].win_rate = ClaimedWinRate(OutcomeTotalsOf(es[i][2]).val)

\* the same with the missing percentage left out of the claim
C9_WinRatePresent ==
    LET es == TeamsOf("standings", p_data)
    IN  (/\ ParsedAs("standings")
         /\ \A i \in 1..Len(es) : PercentageInScope(es[i]) /\ HasKey(OutcomeTotalsOf(es[i][2]).val, s_percentage)) =>
            /\ Len(p_out.result) = Len(es)
            /\ \A i \in 1..Len(es) : p_out.result[i].win_rate = ClaimedWinRate(OutcomeTotalsOf(es[i][2]).val)

-----------------------------------------------------------------------------
(* Claims about the weekly run, checked under SpecMain *)

\* the data kind was obtained: its response file is there, decodes, and its
\* parser returns for it
Obtained(kind) ==
    /\ m_files[kind].exists
    /\ m_files[kind].json
    /\ IF kind = "sb" THEN ~parse_weekly_scoreboard(m_files.sb.data).raised
       ELSE ~parse_weekly_standings(m_files.st.data).raised

ChartsOf(kind) == IF kind = "sb" THEN ScoreboardCharts ELSE StandingsCharts

\* C10 (as claimed): a run that has ended has parsed and rendered every data
\* kind that was obtained, whatever happened to the other kind, and has
\* exited with failure only if neither kind was obtained.
C10_OneKindSuffices ==
    m_pc = "exited" =>
        \A kind \in {"sb", "st"} :
            Obtained(kind) => m_exit = "ok" /\ m_parsed[kind] /\ ChartsOf(kind) \subseteq m_rendered

-----------------------------------------------------------------------------
(* save_parsed_response_to_file and save_response_to_file: the path they   *)
(* write to and the JSON document json.dump produces.  A JSON document is  *)
(* a value tagged by j: null, number (the literal carries a fraction or    *)
(* not), string, array, object.  Object keys are strings; an object may    *)
(* carry the same key twice.                                               *)

UpperCase == <<"A", "B", "C", "D", "E", "F", "G", "H", "I", "J", "K", "L", "M", "N", "O", "P", "Q", "R", "S", "T", "U", "V", "W", "X", "Y", "Z">>
LowerCase == <<"a", "b", "c", "d", "e", "f", "g", "h", "i", "j", "k", "l", "m", "n", "o", "p", "q", "r", "s", "t", "u", "v", "w", "x", "y", "z">>

\* s.lower()
Lower(s) ==
    [i \in 1..Len(s) |->
        IF \E n \in 1..Len(UpperCase) : UpperCase[n] = s[i]
        THEN LowerCase[CHOOSE n \in 1..Len(UpperCase) : UpperCase[n] = s[i]]
        ELSE s[i]]

\* p.rfind(c), counted from 1: 0 when c is not in p
RFind(p, c) ==
    IF \E i \in 1..Len(p) : p[i] = c
    THEN CHOOSE i \in 1..Len(p) : p[i] = c /\ \A n \in (i + 1)..Len(p) : p[n] # c
    ELSE 0

\* os.path.splitext(p): the extension starts at the last dot of the last
\* path component; dots that lead the component do not start an extension
splitext(p) ==
    LET sepIndex == RFind(p, "/")
        dotIndex == RFind(p, ".")
    IN  IF dotIndex > sepIndex /\ \E i \in (sepIndex + 1)..(dotIndex - 1) : p[i] # "."
        THEN [root |-> SubSeq(p, 1, dotIndex - 1), ext |-> SubSeq(p, dotIndex, Len(p))]
        ELSE [root |-> p, ext |-> <<>>]

ext_json == <<".", "j", "s", "o", "n">>

\* if file_extension.lower() != ".json": path = f"{file_name}.json"
JsonPath(path) ==
    IF Lower(splitext(path).ext) # ext_json THEN splitext(path).root \o ext_json ELSE path

JNull == [j |-> "null"]
JNumber(frac, m, e) == [j |-> "number", frac |-> frac, m |-> m, e |-> e]
JString(s) == [j |-> "string", s |-> s]
JArray(vs) == [j |-> "array", vs |-> vs]
JObject(ks, vs) == [j |-> "object", ks |-> ks, vs |-> vs]

\* the document json.dump writes for a decoded response: a float is written
\* with a fraction (0.0, 62.5), an int without
RECURSIVE JsonOf(_)
JsonOf(v) ==
    CASE IsNone(v) -> JNull
      [] IsInt(v) -> JNumber(FALSE, v.n, 0)
      [] IsFloat(v) -> JNumber(TRUE, v.m, v.e)
      [] IsStr(v) -> JString(v.s)
      [] IsList(v) -> JArray([i \in 1..Len(v.vs) |-> JsonOf(v.vs[i])])
      [] IsDict(v) -> JObject(v.ks, [i \in 1..Len(v.vs) |-> JsonOf(v.vs[i])])

\* the name json.dump writes for a dict key: a str as it is, None as "null",
\* an int as its digits
JsonKey(k) ==
    IF IsStr(k) THEN k.s
    ELSE IF IsNone(k) THEN <<"n", "u", "l", "l">>
    ELSE IntToStr(k.n)

\* the object written for a stats_map
JsonOfStats(stats_map) ==
    JObject([i \in 1..Len(stats_map.ks) |-> JsonKey(stats_map.ks[i])],
            [i \in 1..Len(stats_map.vs) |-> JsonOf(stats_map.vs[i])])

s_team_name == <<"t", "e", "a", "m", "_", "n", "a", "m", "e">>
s_standing == <<"s", "t", "a", "n", "d", "i", "n", "g">>
s_win_rate == <<"w", "i", "n", "_", "r", "a", "t", "e">>

\* the object written for a record of a parser, keys in insertion order
JsonOfRecord(rec) ==
    IF "standing" \in DOMAIN rec
    THEN JObject(<<s_team_name, s_standing, s_win_rate, s_stats>>,
                 <<JsonOf(rec.team_name), JNumber(FALSE, rec.standing, 0), JsonOf(rec.win_rate), JsonOfStats(rec.stats)>>)
    ELSE JObject(<<s_team_name, s_stats>>, <<JsonOf(rec.team_name), JsonOfStats(rec.stats)>>)

\* json.dump(response, file, indent=2, ensure_ascii=False): the document
\* written, for the list a parser returned ("parsed") or a decoded response
json_dump(fn, response) ==
    IF fn = "parsed" THEN JArray([i \in 1..Len(response) |-> JsonOfRecord(response[i])])
    ELSE JsonOf(response)

\* d[k] = v for a dict
DictSet(d, k, v) ==
    IF HasKey(d, k)
    THEN PyDict(d.ks, [i \in 1..Len(d.ks) |-> IF d.ks[i] = k THEN v ELSE d.vs[i]])
    ELSE PyDict(Append(d.ks, k), Append(d.vs, v))

\* the dict of the pairs ks[i]: vs[i] from pair i on, set one by one into d
RECURSIVE DictOfPairs(_, _, _, _)
DictOfPairs(ks, vs, i, d) ==
    IF i > Len(ks) THEN d ELSE DictOfPairs(ks, vs, i + 1, DictSet(d, ks[i], vs[i]))

\* json.load of a document: an object becomes a dict whose keys are str
\* (the last of equal keys wins), a number an int or a float
RECURSIVE json_load(_)
json_load(doc) ==
    CASE doc.j = "null" -> None
      [] doc.j = "number" -> IF doc.frac THEN PyFloat(doc.m, doc.e) ELSE PyInt(doc.m)
      [] doc.j = "string" -> PyStr(doc.s)
      [] doc.j = "array" -> PyList([i \in 1..Len(doc.vs) |-> json_load(doc.vs[i])])
      [] doc.j = "object" -> DictOfPairs(doc.ks, [i \in 1..Len(doc.vs) |-> json_load(doc.vs[i])], 1, EmptyDict)

(* The specification of the save functions: Init is a call, and the call  *)
(* ends with the file written or, when open() raises, with the exception   *)
(* printed and nothing written                                             *)

\* the lists the parsers return for one team with one stat entry, for the
\* run's two good teams and for four teams with all stats
SaveTeams ==
    {<<Team(PyStr(<<"3">>), PyList(st), PyStr(<<".", "5">>))>> : st \in SeqsUpTo(StatShapes, 1)}
    \cup {<<GoodA, GoodB>>, <<GoodB, Team(PyStr(<<"3", "3">>), GoodStatsA, PyInt(1))>>}
    \cup {<<Team(PyStr(<<"1">>), FullStats, PyStr(<<".", "5">>)), Team(PyStr(<<"3", "3">>), FullStats, PyStr(<<".", "5">>))>>}

SaveRecords ==
    {parse_weekly_scoreboard(ScoreboardResponse(ts)).result : ts \in {x \in SaveTeams : ~parse_weekly_scoreboard(ScoreboardResponse(x)).raised}}
    \cup {parse_weekly_standings(StandingsResponse(ts)).result : ts \in SaveTeams}

SaveStems == {<<"a">>, <<"d", "/", "a">>, <<"d", ".", "x", "/", "a">>, <<".", "a">>, <<"a", ".", "b">>, <<"d", "/">>, <<>>}
SaveExts == {<<>>, ext_json, <<".", "J", "S", "O", "N">>, <<".", "J", "s", "o", "n">>, <<".", "t", "x", "t">>, <<".">>,
             <<".", "j", "s", "o", "n", ".", "t", "x", "t">>, <<".", "t", "x", "t", ".", "j", "s", "o", "n">>, <<".", "j", "s", "o", "n", "l">>}
SavePaths == {stem \o ext : stem \in SaveStems, ext \in SaveExts}

NoFileWritten == [written |-> FALSE, path |-> <<>>, doc |-> <<>>]

SaveInit ==
    /\ sv_pc = "called"
    /\ \/ sv_fn = "parsed" /\ sv_response \in SaveRecords
       \/ sv_fn = "response" /\ sv_response \in ScoreboardBodies \cup StandingsBodies
    /\ sv_path \in SavePaths
    /\ sv_file = NoFileWritten
    /\ sg_root = None /\ sg_default = None /\ sg_keys = <<>> /\ sg_d = None
    /\ sg_at = None /\ sg_pc = "idle" /\ sg_ret = None
    /\ p_fn = "idle" /\ p_data = None /\ p_pc = "idle" /\ p_out = Returned(<<>>)
    /\ MainIdle /\ CallsIdle /\ H2HIdle /\ TokenIdle

\* open(path, "w") succeeds and json.dump writes the document
SaveWrite ==
    /\ sv_pc = "called"
    /\ sv_pc' = "done"
    /\ sv_file' = [written |-> TRUE, path |-> JsonPath(sv_path), doc |-> json_dump(sv_fn, sv_response)]
    /\ UNCHANGED <<sv_fn, sv_response, sv_path, sg_vars, p_vars, m_vars, c_vars, h_vars, t_vars>>

\* open(path, "w") raises (the directory is missing, the path is one): the
\* exception is printed and the call returns
SaveFail ==
    /\ sv_pc = "called"
    /\ sv_pc' = "done"
    /\ UNCHANGED <<sv_fn, sv_response, sv_path, sv_file, sg_vars, p_vars, m_vars, c_vars, h_vars, t_vars>>

SaveNext == SaveWrite \/ SaveFail

SpecSave == SaveInit /\ [][SaveNext]_vars

-----------------------------------------------------------------------------
(* Claims about the save functions, checked under SpecSave *)

\* the call wrote its file
Wrote(fn) == sv_pc = "done" /\ sv_fn = fn /\ sv_file.written

\* the dict d read back equals the stats_map m: the same keys with the same values
SameStats(m, d) ==
    /\ IsDict(d)
    /\ Len(d.ks) = Len(m.ks)
    /\ \A i \in 1..Len(m.ks) :
        IsStr(m.ks[i]) /\ HasKey(d, m.ks[i].s) /\ GetKey(d, m.ks[i].s) = m.vs[i]

\* the dict d read back equals the record rec
SameRecord(rec, d) ==
    /\ IsDict(d)
    /\ HasKey(d, s_team_name) /\ GetKey(d, s_team_name) = rec.team_name
    /\ HasKey(d, s_stats) /\ SameStats(rec.stats, GetKey(d, s_stats))
    /\ IF "standing" \in DOMAIN rec
       THEN /\ Len(d.ks) = 4
            /\ HasKey(d, s_standing) /\ GetKey(d, s_standing) = PyInt(rec.standing)
            /\ HasKey(d, s_win_rate) /\ GetKey(d, s_win_rate) = rec.win_rate
       ELSE Len(d.ks) = 2

\* the list read back equals the list of records written, in order
SameRecords(result, back) ==
    /\ IsList(back)
    /\ Len(back.vs) = Len(result)
    /\ \A i \in 1..Len(result) : SameRecord(result[i], back.vs[i])

\* C11 (as claimed): the list of records a parser returned, written by
\* save_parsed_response_to_file and read back by json.load, equals the list
\* written: the same length and order, and per record the same team_name
\* and the same stats keys and values, unknown team and stat ids included.
C11_RoundTrip ==
    Wrote("parsed") => SameRecords(sv_response, json_load(sv_file.doc))

\* C19 (as claimed): the path written to has the extension ".json" exactly;
\* a caller's path with any other extension, none, or one in another case
\* has it replaced; a path that ends in ".json" is written as given; and
\* normalising the written path again gives the written path.
C19_JsonExtension ==
    (sv_pc = "done" /\ sv_file.written) =>
        /\ splitext(sv_file.path).ext = ext_json
        /\ splitext(sv_path).ext # ext_json => sv_file.path = splitext(sv_path).root \o ext_json
        /\ (Len(sv_path) >= 5 /\ SubSeq(sv_path, Len(sv_path) - 4, Len(sv_path)) = ext_json) => sv_file.path = sv_path
        /\ JsonPath(sv_file.path) = sv_file.path

-----------------------------------------------------------------------------
(* Claims about one iteration of safe_get's loop, checked under            *)
(* SpecSafeGet as properties of its steps: sg_d is the node the iteration  *)
(* starts at and the key it looks up is the one the step appends           *)

\* the step is an iteration of the loop
Stepped == sg_keys' # sg_keys
\* the iteration ends with `d = x; continue`
DescendsTo(x) == sg_pc' = "loop" /\ sg_d' = x
\* the iteration ends with `return default`
ReturnsDefault == sg_pc' = "returned" /\ sg_ret' = sg_default

\* C12: at a dict node, an int key k (never itself a key of a decoded JSON
\* object) descends into d[str(k)] when str(k) is a key, and otherwise
\* returns the default without any search of the nested values.
C12_IntKeyOnDict ==
    [][(Stepped /\ IsDict(sg_d) /\ IsInt(Last(sg_keys'))) =>
         IF HasKey(sg_d, IntToStr(Last(sg_keys').n))
         THEN DescendsTo(GetKey(sg_d, IntToStr(Last(sg_keys').n)))
         ELSE ReturnsDefault]_vars

\* safe_get({"0": {"a": 1}, "1": {"a": 2}}, 1, "a") has returned 2
C12_Witness ==
    /\ sg_root = PyDict(<<ch_0, ch_1>>, <<PyDict(<<ch_a>>, <<PyInt(1)>>), PyDict(<<ch_a>>, <<PyInt(2)>>)>>)
    /\ sg_keys = <<PyInt(1), PyStr(ch_a)>>
    /\ sg_pc = "returned"
    /\ sg_ret = PyInt(2)

\* the least index at which the boolean sequence holds TRUE
Least(hits) == CHOOSE i \in 1..Len(hits) : hits[i] /\ \A j \in 1..(i - 1) : ~hits[j]

\* the dict v holds the str k among its keys
Direct(v, k) == IsDict(v) /\ HasKey(v, k)
\* the dict v holds k in one of its values that are dicts
Nested(v, k) == IsDict(v) /\ \E j \in 1..Len(v.vs) : Direct(v.vs[j], k)
\* inner[k] for the first value inner of v that is a dict holding k
FirstNested(v, k) == GetKey(v.vs[Least([j \in 1..Len(v.vs) |-> Direct(v.vs[j], k)])], k)

\* C13: at a dict node that lacks the str key k the values are visited in
\* insertion order and the first that matches wins; a value v matches by
\* v[k] first and else by inner[k] for its first inner dict holding k; a
\* key that sits deeper than that is not found and the default is returned.
C13_DictValueSearch ==
    [][(Stepped /\ IsDict(sg_d) /\ IsStr(Last(sg_keys')) /\ ~HasKey(sg_d, Last(sg_keys').s)) =>
         LET k == Last(sg_keys').s
             hits == [i \in 1..Len(sg_d.vs) |-> Direct(sg_d.vs[i], k) \/ Nested(sg_d.vs[i], k)]
         IN  IF \A i \in 1..Len(hits) : ~hits[i] THEN ReturnsDefault
             ELSE IF Direct(sg_d.vs[Least(hits)], k) THEN DescendsTo(GetKey(sg_d.vs[Least(hits)], k))
             ELSE DescendsTo(FirstNested(sg_d.vs[Least(hits)], k))]_vars

\* {"1": {"0": {"a": 1}, "a": "s"}} asked for "a": the value holds "a" in an
\* inner dict and, after it, directly; the direct entry is the one reached
C13_Witness ==
    /\ sg_at = PyDict(<<ch_1>>, <<PyDict(<<ch_0, ch_a>>, <<PyDict(<<ch_a>>, <<PyInt(1)>>), PyStr(<<"s">>)>>)>>)
    /\ Len(sg_keys) = 1 /\ Last(sg_keys) = PyStr(ch_a)
    /\ sg_pc = "loop"
    /\ sg_d = PyStr(<<"s">>)

\* C14: at a list node a str key selects item[key] of the first element
\* that is a dict holding the key; only when no element holds it directly,
\* v[key] of the first dict value v holding it (elements in order, then
\* the values of an element in order); with no match the default.
C14_ListSearch ==
    [][(Stepped /\ IsList(sg_d) /\ IsStr(Last(sg_keys'))) =>
         LET k == Last(sg_keys').s
             direct == [i \in 1..Len(sg_d.vs) |-> Direct(sg_d.vs[i], k)]
             nested == [i \in 1..Len(sg_d.vs) |-> Nested(sg_d.vs[i], k)]
         IN  IF \E i \in 1..Len(direct) : direct[i] THEN DescendsTo(GetKey(sg_d.vs[Least(direct)], k))
             ELSE IF \E i \in 1..Len(nested) : nested[i] THEN DescendsTo(FirstNested(sg_d.vs[Least(nested)], k))
             ELSE ReturnsDefault]_vars

\* a list whose first element holds "a" one level down and whose second
\* holds it directly: the second element's entry is the one reached
C14_Witness ==
    /\ IsList(sg_at) /\ Len(sg_at.vs) = 2
    /\ Nested(sg_at.vs[1], ch_a) /\ ~Direct(sg_at.vs[1], ch_a)
    /\ Direct(sg_at.vs[2], ch_a)
    /\ Last(sg_keys) = PyStr(ch_a)
    /\ sg_pc = "loop"
    /\ sg_d = GetKey(sg_at.vs[2], ch_a)
    /\ sg_d # FirstNested(sg_at.vs[1], ch_a)

\* C15: an iteration that starts at None (the root, or a None stored in the
\* tree and reached while keys remain) returns the default at once,
\* whatever keys follow.
C15_NoneReturnsDefault ==
    [][(Stepped /\ IsNone(sg_d)) =>
         /\ ReturnsDefault
         /\ \A rest \in SeqsUpTo(SgPathKeys, 2) :
              safe_get(sg_d, <<Last(sg_keys')>> \o rest, sg_default) = Ok(sg_default)]_vars

\* a None stored under a key was reached, a further key was asked for, and
\* the call returned a default that is not None
C15_Witness ==
    /\ Len(sg_keys) = 2
    /\ IsNone(sg_at) /\ ~IsNone(sg_root)
    /\ sg_pc = "returned"
    /\ sg_default # None /\ sg_ret = sg_default

\* C16: at a list node an int key i descends into d[i] exactly when
\* 0 <= i < len(d); any other index, a negative one included, returns the
\* default and never selects from the end.
C16_ListIndex ==
    [][(Stepped /\ IsList(sg_d) /\ IsInt(Last(sg_keys'))) =>
         IF 0 <= Last(sg_keys').n /\ Last(sg_keys').n < Len(sg_d.vs)
         THEN DescendsTo(sg_d.vs[Last(sg_keys').n + 1])
         ELSE ReturnsDefault]_vars

\* index -1 of a list of two elements gave the default, index 1 its second element
C16_Witness ==
    /\ Len(sg_keys) = 2
    /\ IsList(sg_root) /\ Len(sg_root.vs) = 2
    /\ sg_keys[1] = PyInt(1) /\ sg_at = sg_root.vs[2]
    /\ IsList(sg_at) /\ Len(sg_at.vs) = 1
    /\ sg_keys[2] = PyInt(0 - 1)
    /\ sg_pc = "returned" /\ sg_ret = sg_default /\ sg_default # sg_at.vs[1]

-----------------------------------------------------------------------------
(* Claims about the ids the lookup tables lack and about the order of the  *)
(* records, checked under SpecParse                                        *)

\* TABLE.get(str(id)), as the claim reads it: the name, or None for an id
\* the table lacks
ClaimedName(table, id) == IF PyStrOf(id) \in DOMAIN table THEN PyStr(table[PyStrOf(id)]) ELSE None

TeamInfoOf(team) == StrictGet(team, <<PyStr(s_team), PyInt(0)>>)
TeamIdOf(team) == extract_from_list_of_dicts(TeamInfoOf(team).val, s_team_id)

\* a team that is well-formed whatever its ids are: info and stats are
\* there, every stat has both fields, every composite value splits into two
\* integers and, for the standings, the key is an integer and the
\* percentage is present and falsy or numeric
Sound(fn, e) ==
    /\ HasStats(e[2])
    /\ TeamInfoOf(e[2]).ok /\ IsList(TeamInfoOf(e[2]).val)
    /\ \A i \in 1..Len(StatsOf(e[2]).val.vs) :
           IsComposite(StatsOf(e[2]).val.vs[i]) => GoodSplit(StatValue(StatsOf(e[2]).val.vs[i]))
    /\ fn = "standings" =>
           /\ IntOfStr(e[1]).ok
           /\ OutcomeTotalsOf(e[2]).ok /\ IsDict(OutcomeTotalsOf(e[2]).val)
           /\ HasKey(OutcomeTotalsOf(e[2]).val, s_percentage)
           /\ \/ ~Truthy(GetKey(OutcomeTotalsOf(e[2]).val, s_percentage))
              \/ FloatOf(GetKey(OutcomeTotalsOf(e[2]).val, s_percentage)).ok

\* the stats map holds, for every stat of the list that is not composite and
\* is the last to go under its name, the raw value under the table's name
\* for its id, or under None when the table lacks the id
RawUnderName(stats_map, st) ==
    \A j \in 1..Len(st) :
        (/\ ~IsComposite(st[j])
         /\ \A k \in (j + 1)..Len(st) :
                IsComposite(st[k]) \/ ClaimedName(STAT_ID_TO_NAME_MAP, StatId(st[k])) # ClaimedName(STAT_ID_TO_NAME_MAP, StatId(st[j])))
        => /\ MapHas(stats_map, ClaimedName(STAT_ID_TO_NAME_MAP, StatId(st[j])))
           /\ MapGet(stats_map, ClaimedName(STAT_ID_TO_NAME_MAP, StatId(st[j]))) = StatValue(st[j])

\* C17: ids the lookup tables lack never make a parser fail: every team that
\* is otherwise well-formed gets its record, with team_name None when no
\* manager has the team id, and every stat that is not composite stores its
\* raw value unchanged under its canonical name, or under None when the
\* table lacks the stat id.
C17_UnknownIdsEmit ==
    \A fn \in {"scoreboard", "standings"} :
        (ParsedAs(fn) /\ \A i \in 1..Len(TeamsOf(fn, p_data)) : Sound(fn, TeamsOf(fn, p_data)[i])) =>
            /\ ~p_out.raised
            /\ Len(p_out.result) = Len(TeamsOf(fn, p_data))
            /\ \A i \in 1..Len(TeamsOf(fn, p_data)) :
                   /\ p_out.result[i].team_name = ClaimedName(MANAGER_ID_TO_NAME_MAP, TeamIdOf(TeamsOf(fn, p_data)[i][2]))
                   /\ RawUnderName(p_out.result[i].stats, StatsOf(TeamsOf(fn, p_data)[i][2]).val.vs)

\* the standings of a known team and of team "33" with the stats "99": "5",
\* "12": "100", "98": 6: two records, the second with no name, 6 stored
\* under None and "100" under PTS
C17_Witness ==
    /\ ParsedAs("standings")
    /\ p_data = StandingsResponse(<<GoodB, UnknownIds>>)
    /\ Len(p_out.result) = 2
    /\ p_out.result[2].team_name = None
    /\ p_out.result[2].stats.ks = <<None, PyStr(<<"P", "T", "S">>)>>
    /\ p_out.result[2].stats.vs = <<PyInt(6), PyStr(<<"1", "0", "0">>)>>

\* the sub-tree whose values a parser iterates over: the matchups, or the
\* teams of the standings; None when it is not reached
SelectedTree(fn, data) ==
    IF fn = "scoreboard"
    THEN safe_get(data, <<PyStr(s_fantasy_content), PyStr(s_league), PyStr(s_scoreboard), PyStr(s_matchups)>>, None).val
    ELSE LET standings_structure == safe_get(data, <<PyStr(s_fantasy_content), PyStr(s_league), PyStr(s_standings)>>, None).val
         IN  IF IsNone(standings_structure) \/ ~Subscript(standings_structure, PyInt(0)).ok THEN None
             ELSE safe_get(Subscript(standings_structure, PyInt(0)).val, <<PyStr(s_teams)>>, None).val

\* the well-formed teams among the entries es, in source order
WellFormed(fn, es) ==
    LET sound(e) == Sound(fn, e)
    IN  SelectSeq(es, sound)

\* C18 (as claimed): a call returns exactly one record per well-formed team
\* of the source tree, in the iteration order of the source mappings
\* (matchups, then the teams of each; the standings teams), and the empty
\* sequence when the sub-tree it selects is not a mapping.
C18_OnePerWellFormedTeam ==
    \A fn \in {"scoreboard", "standings"} :
        /\ ParsedAs(fn) =>
               /\ ~p_out.raised
               /\ p_out.result = RecordsOf(fn, WellFormed(fn, TeamsOf(fn, p_data)))
        /\ (p_pc = "done" /\ p_fn = fn /\ ~IsDict(SelectedTree(fn, p_data))) =>
               ~p_out.raised /\ p_out.result = <<>>

\* the same for the responses whose teams are all well-formed, and the
\* selected sub-tree that is no mapping
C18_InSourceOrder ==
    \A fn \in {"scoreboard", "standings"} :
        /\ (ParsedAs(fn) /\ \A i \in 1..Len(TeamsOf(fn, p_data)) : Sound(fn, TeamsOf(fn, p_data)[i])) =>
               /\ ~p_out.raised
               /\ p_out.result = RecordsOf(fn, TeamsOf(fn, p_data))
        /\ (p_pc = "done" /\ p_fn = fn /\ ~IsDict(SelectedTree(fn, p_data))) =>
               ~p_out.raised /\ p_out.result = <<>>

-----------------------------------------------------------------------------
(* A caller that holds one decoded response and calls safe_get and the two *)
(* parsers on it, any of them, in any order.  Each call is logged with its *)
(* arguments and its outcome.  The list named `result` in a parser is      *)
(* bound to a new empty list at the start of every call.                   *)

MaxCalls == 3

\* the list of the previous call of fn as it was left, <<>> before the first
LastResult(log, fn) ==
    IF \E i \in 1..Len(log) : log[i].fn = fn
    THEN log[CHOOSE i \in 1..Len(log) : log[i].fn = fn /\ \A j \in (i + 1)..Len(log) : log[j].fn # fn].out.result
    ELSE <<>>

\* the list the call appends to is the one the previous call left
FreshResult_kept(previous) == previous

\* result = []
FreshResult(previous) == <<>>

\* the outcome of a parser call that starts with the list `start`
Appended(start, r) == IF r.raised THEN Propagated ELSE Returned(start \o r.result)

CallTrees == {
    ScoreboardResponse(<<GoodA, GoodB>>),
    ScoreboardResponse(<<GoodB, EmptyDict>>),
    StandingsResponse(<<GoodA, GoodB>>),
    StandingsResponse(<<GoodB, EmptyDict, GoodA>>),
    League(s_standings, None),
    PyList(<<PyDict(<<s_teams>>, <<Counted(<<GoodA>>)>>)>>) }

CallPaths == {
    <<PyStr(s_fantasy_content), PyStr(s_league), PyStr(s_scoreboard), PyStr(s_matchups)>>,
    <<PyStr(s_fantasy_content), PyStr(s_league), PyStr(s_standings)>>,
    <<PyStr(s_teams), PyInt(0)>>,
    <<PyStr(s_team_id)>> }

CallDefaults == {None, EmptyDict}

CallsInit ==
    /\ c_tree \in CallTrees
    /\ c_log = <<>>
    /\ sg_root = None /\ sg_default = None /\ sg_keys = <<>> /\ sg_d = None
    /\ sg_at = None /\ sg_pc = "idle" /\ sg_ret = None
    /\ p_fn = "idle" /\ p_data = None /\ p_pc = "idle" /\ p_out = Returned(<<>>)
    /\ MainIdle /\ SaveIdle /\ H2HIdle /\ TokenIdle

\* safe_get(tree, *keys, default=default): no statement of it assigns into a node
CallSafeGet(keys, default) ==
    /\ Len(c_log) < MaxCalls
    /\ c_log' = Append(c_log, [fn |-> "safe_get", tree |-> c_tree, keys |-> keys, default |-> default,
                               out |-> [raised |-> ~safe_get(c_tree, keys, default).ok,
                                        result |-> safe_get(c_tree, keys, default).val]])
    /\ UNCHANGED <<c_tree, sg_vars, p_vars, m_vars, sv_vars, h_vars, t_vars>>

\* parse_weekly_scoreboard(tree)
CallScoreboard ==
    /\ Len(c_log) < MaxCalls
    /\ c_log' = Append(c_log, [fn |-> "parse_weekly_scoreboard", tree |-> c_tree, keys |-> <<>>, default |-> None,
                               out |-> Appended(FreshResult(LastResult(c_log, "parse_weekly_scoreboard")), parse_weekly_scoreboard(c_tree))])
    /\ UNCHANGED <<c_tree, sg_vars, p_vars, m_vars, sv_vars, h_vars, t_vars>>

\* parse_weekly_standings(tree, week)
CallStandings ==
    /\ Len(c_log) < MaxCalls
    /\ c_log' = Append(c_log, [fn |-> "parse_weekly_standings", tree |-> c_tree, keys |-> <<>>, default |-> None,
                               out |-> Appended(FreshResult(LastResult(c_log, "parse_weekly_standings")), parse_weekly_standings(c_tree))])
    /\ UNCHANGED <<c_tree, sg_vars, p_vars, m_vars, sv_vars, h_vars, t_vars>>

CallsNext ==
    \/ \E keys \in CallPaths, default \in CallDefaults : CallSafeGet(keys, default)
    \/ CallScoreboard
    \/ CallStandings

SpecCalls == CallsInit /\ [][CallsNext]_vars

(* Claims about sequences of calls, checked under SpecCalls *)

-----------------------------------------------------------------------------
(* Claims about the stats of one team, checked under SpecParse *)

\* the entries of the stats list st that are not composite and whose id the
\* lookup table lacks
Unmapped(st) == {j \in 1..Len(st) : ~IsComposite(st[j]) /\ ClaimedName(STAT_ID_TO_NAME_MAP, StatId(st[j])) = None}

Max(S) == CHOOSE x \in S : \A y \in S : y <= x

\* the None key is there once and holds the value of the last unmapped entry
LastUnmappedUnderNone(stats_map, st) ==
    /\ Cardinality({k \in 1..Len(stats_map.ks) : stats_map.ks[k] = None}) = 1
    /\ MapGet(stats_map, None) = StatValue(st[Max(Unmapped(st))])

\* C21 (as claimed): a team with two or more stat ids the table lacks has a
\* single None key holding the value of the last of them, and its record
\* has fewer keys than the team has stat entries.
C21_SingleNoneKey ==
    \A fn \in {"scoreboard", "standings"} :
        (ParsedAs(fn) /\ \A i \in 1..Len(TeamsOf(fn, p_data)) : Sound(fn, TeamsOf(fn, p_data)[i])) =>
            \A i \in 1..Len(TeamsOf(fn, p_data)) :
                Cardinality(Unmapped(StatsOf(TeamsOf(fn, p_data)[i][2]).val.vs)) >= 2 =>
                    /\ Len(p_out.result) = Len(TeamsOf(fn, p_data))
                    /\ LastUnmappedUnderNone(p_out.result[i].stats, StatsOf(TeamsOf(fn, p_data)[i][2]).val.vs)
                    /\ Len(p_out.result[i].stats.ks) < Len(StatsOf(TeamsOf(fn, p_data)[i][2]).val.vs)

\* C21 (amended): a team with u >= 2 stat ids the table lacks has a single
\* None key holding the value of the last of them; the u - 1 earlier ones
\* leave no key, so the record has at most n - (u - 1) + c keys for n stat
\* entries of which c are composite (each writes two keys), and fewer keys
\* than entries when the team has no composite stat.
C21_NoneKeyOverwritten ==
    \A fn \in {"scoreboard", "standings"} :
        (ParsedAs(fn) /\ \A i \in 1..Len(TeamsOf(fn, p_data)) : Sound(fn, TeamsOf(fn, p_data)[i])) =>
            \A i \in 1..Len(TeamsOf(fn, p_data)) :
                Cardinality(Unmapped(StatsOf(TeamsOf(fn, p_data)[i][2]).val.vs)) >= 2 =>
                    /\ Len(p_out.result) = Len(TeamsOf(fn, p_data))
                    /\ LastUnmappedUnderNone(p_out.result[i].stats, StatsOf(TeamsOf(fn, p_data)[i][2]).val.vs)
                    /\ Len(p_out.result[i].stats.ks) <=
                           Len(StatsOf(TeamsOf(fn, p_data)[i][2]).val.vs)
                           - (Cardinality(Unmapped(StatsOf(TeamsOf(fn, p_data)[i][2]).val.vs)) - 1)
                           + Cardinality(Composites(TeamsOf(fn, p_data)[i][2]))
                    /\ Composites(TeamsOf(fn, p_data)[i][2]) = {} =>
                           Len(p_out.result[i].stats.ks) < Len(StatsOf(TeamsOf(fn, p_data)[i][2]).val.vs)

\* the stats "99": "5", "98": "6" and a composite "7/12": three entries and
\* three keys, None holding "6"
C21_Witness ==
    /\ ParsedAs("scoreboard")
    /\ p_data = ScoreboardResponse(<<UnknownAndComposite>>)
    /\ Len(p_out.result) = 1
    /\ p_out.result[1].stats.ks = <<None, PyStr(<<"F", "G", "M">>), PyStr(<<"F", "G", "A">>)>>
    /\ p_out.result[1].stats.vs = <<PyStr(<<"6">>), PyInt(7), PyInt(12)>>

\* the entry carries a composite id as an int
IntCompositeId(stat) == IsInt(StatId(stat)) /\ PyStr(IntToStr(StatId(stat).n)) \in {ID_FG, ID_FT}

\* the two count keys a split of the id's kind would write
CountKeys(id) ==
    IF IntToStr(id.n) = ID_FG.s THEN {PyStr(<<"F", "G", "M">>), PyStr(<<"F", "G", "A">>)}
    ELSE {PyStr(<<"F", "T", "M">>), PyStr(<<"F", "T", "A">>)}

\* C28: only the str ids "9004003" and "9007006" are split.  A stat whose id
\* is the int 9004003 or 9007006 is stored as one entry under the table
\* name FGM/FGA or FTM/FTA with its raw value, and unless the team also has
\* the str id of that kind the record has none of the kind's count keys.
C28_IntIdNotSplit ==
    \A fn \in {"scoreboard", "standings"} :
        (ParsedAs(fn) /\ \A i \in 1..Len(TeamsOf(fn, p_data)) : Sound(fn, TeamsOf(fn, p_data)[i])) =>
            /\ Len(p_out.result) = Len(TeamsOf(fn, p_data))
            /\ \A i \in 1..Len(TeamsOf(fn, p_data)) :
                   LET st == StatsOf(TeamsOf(fn, p_data)[i][2]).val.vs
                   IN  \A j \in 1..Len(st) :
                           IntCompositeId(st[j]) =>
                               /\ MapHas(p_out.result[i].stats, PyStr(STAT_ID_TO_NAME_MAP[IntToStr(StatId(st[j]).n)]))
                               /\ (\A k \in (j + 1)..Len(st) : PyStrOf(StatId(st[k])) # IntToStr(StatId(st[j]).n)) =>
                                      MapGet(p_out.result[i].stats, PyStr(STAT_ID_TO_NAME_MAP[IntToStr(StatId(st[j]).n)])) = StatValue(st[j])
                               /\ (\A k \in 1..Len(st) : StatId(st[k]) # PyStr(IntToStr(StatId(st[j]).n))) =>
                                      \A key \in CountKeys(StatId(st[j])) : ~MapHas(p_out.result[i].stats, key)

\* the standings of a team with the int ids 9007006: "3/4" and 9004003:
\* "7/12": both stored whole under the table names, no count key
C28_Witness ==
    /\ ParsedAs("standings")
    /\ p_data = StandingsResponse(<<IntComposites>>)
    /\ Len(p_out.result) = 1
    /\ p_out.result[1].stats.ks = <<PyStr(<<"F", "T", "M", "/", "F", "T", "A">>), PyStr(<<"F", "G", "M", "/", "F", "G", "A">>), PyStr(<<"P", "T", "S">>)>>
    /\ p_out.result[1].stats.vs = <<PyStr(<<"3", "/", "4">>), PyStr(<<"7", "/", "1", "2">>), PyStr(<<"1", "0", "0">>)>>

-----------------------------------------------------------------------------
(* A claim about the value safe_get returns, checked under SpecSafeGet *)

\* the default the caller passed explicitly; no tree holds it
GivenDefault == PyStr(<<"d">>)

\* C27: the supplied default comes back only from an unresolved step.  When
\* the last key resolves, the stored value is returned, a stored None
\* included; with an empty path the root is returned, a None root included.
C27_StoredNoneReturned ==
    sg_pc = "returned" =>
        /\ sg_keys = <<>> => sg_ret = sg_root
        /\ (sg_keys # <<>> /\ ~Unresolved(sg_at, Last(sg_keys))) => sg_ret = sg_d
        /\ (sg_keys # <<>> /\ ~Unresolved(sg_at, Last(sg_keys)) /\ IsNone(sg_d)) => sg_ret = None
        /\ sg_ret = GivenDefault => (sg_keys # <<>> /\ Unresolved(sg_at, Last(sg_keys)))

\* a dict holds None under the key asked for last, the caller passed a
\* default, and None came back
C27_Witness ==
    /\ sg_pc = "returned"
    /\ sg_keys # <<>>
    /\ IsDict(sg_at) /\ KeyIn(sg_at, Last(sg_keys)) /\ IsNone(GetKey(sg_at, Last(sg_keys).s))
    /\ sg_default = GivenDefault
    /\ sg_ret = None

\* safe_get(None, default="d") has returned None
C27_WitnessEmptyPath ==
    /\ sg_pc = "returned" /\ sg_keys = <<>> /\ IsNone(sg_root) /\ sg_default = GivenDefault /\ sg_ret = None

-----------------------------------------------------------------------------
(* A claim about what decides the run of main(), checked under SpecMain *)

\* C29 (as claimed): at the end of a run the visualizations of a data kind
\* have run only if its response file existed when the parse blocks ran,
\* and a response file that was there (left by an earlier run or written by
\* this run's fetch), decodes and parses has been parsed and rendered.
C29_FileExistenceDecides ==
    m_pc = "exited" =>
        \A kind \in {"sb", "st"} :
            /\ ChartsOf(kind) \cap m_rendered # {} => m_files[kind].exists
            /\ ~m_files[kind].exists => ~m_parsed[kind]
            /\ Obtained(kind) => m_parsed[kind] /\ ChartsOf(kind) \subseteq m_rendered

\* the part of it that does not depend on the parse calls returning: the
\* flags are the existence of the files, and a run that reaches the
\* visualizations renders exactly the kinds whose file existed
C29_FlagsAreFileExistence ==
    /\ m_pc \in {"check", "visualize"} => \A kind \in {"sb", "st"} : m_flags[kind] = m_files[kind].exists
    /\ (m_pc = "exited" /\ m_exit = "ok") =>
           \A kind \in {"sb", "st"} :
               IF m_files[kind].exists THEN ChartsOf(kind) \subseteq m_rendered ELSE ChartsOf(kind) \cap m_rendered = {}

-----------------------------------------------------------------------------
(* build_head_to_head_df (src/visualization/head_to_head.py)               *)
(* The frame df is a sequence of rows, one per team in file order; a row    *)
(* is [Team |-> name, stats |-> function from column names to cells].       *)
(* A cell is a float (load_scoreboard_json converts every value it can),    *)
(* NaN (the column is missing for this team) or a string that float()       *)
(* rejected.  The matrix is held by position, as pandas holds a frame       *)
(* whose labels may repeat.                                                 *)

scoring_cats == <<"FG%", "FT%", "3PTM", "PTS", "REB", "AST", "STL", "BLK", "TO">>

HNum(n) == [k |-> "num", n |-> n]
HNaN == [k |-> "nan"]
HStr(s) == [k |-> "str", s |-> s]

\* a < b, a > b between two cells raise TypeError between str and float
Ordered(a, b) == (a.k = "str") = (b.k = "str")
\* a < b on cells that can be ordered: every comparison with NaN is False
CellLt(a, b) == a.k = "num" /\ b.k = "num" /\ a.n < b.n
\* a == b: never raises, False with NaN and between str and float
CellEq(a, b) ==
    \/ a.k = "num" /\ b.k = "num" /\ a.n = b.n
    \/ a.k = "str" /\ b.k = "str" /\ a.s = b.s

\* df[df['Team'] == team][cat].values[0]: the cell of the FIRST row of that name
CellOf(df, team, cat) ==
    LET i == CHOOSE i \in 1..Len(df) : df[i].Team = team /\ \A j \in 1..(i - 1) : df[j].Team # team
    IN  df[i].stats[cat]

\* the if / elif / else of one category: "win", "loss", "tie" for team1, or "raise"
CatOutcome(df, team1, team2, cat) ==
    LET rank1 == CellOf(df, team1, cat)
        rank2 == CellOf(df, team2, cat)
        att == IF cat = "FG%" THEN "FGA" ELSE "FTA"
        team1_attempts == CellOf(df, team1, att)
        team2_attempts == CellOf(df, team2, att)
    IN  IF cat = "TO"
        THEN IF ~Ordered(rank1, rank2) THEN "raise"
             ELSE IF CellLt(rank1, rank2) THEN "win"
             ELSE IF CellLt(rank2, rank1) THEN "loss"
             ELSE "tie"
        ELSE IF cat \in {"FG%", "FT%"} /\ CellEq(rank1, rank2)
        THEN IF ~Ordered(team1_attempts, team2_attempts) THEN "raise"
             ELSE IF CellLt(team2_attempts, team1_attempts) THEN "win"
             ELSE IF CellLt(team1_attempts, team2_attempts) THEN "loss"
             ELSE "tie"
        ELSE IF ~Ordered(rank1, rank2) THEN "raise"
             ELSE IF CellLt(rank2, rank1) THEN "win"
             ELSE IF CellLt(rank1, rank2) THEN "loss"
             ELSE "tie"

\* the inner loop over scoring_cats: the three counters, or raised
CountOutcomes(df, team1, team2) ==
    LET out(c) == CatOutcome(df, team1, team2, scoring_cats[c])
        n(o) == Cardinality({c \in 1..Len(scoring_cats) : out(c) = o})
    IN  [raised |-> n("raise") > 0, wins |-> n("win"), losses |-> n("loss"), ties |-> n("tie")]

\* f"{wins}-{losses}-{ties}"
FormatWLT(wins, losses, ties) == IntToStr(wins) \o <<"-">> \o IntToStr(losses) \o <<"-">> \o IntToStr(ties)

\* itertools.combinations(teams, 2): the pairs of POSITIONS in lexicographic order
RECURSIVE combinations(_, _, _)
combinations(n, i, j) ==
    IF i >= n THEN <<>>
    ELSE IF j > n THEN combinations(n, i + 1, i + 2)
    ELSE <<<<i, j>>>> \o combinations(n, i, j + 1)

\* h2h_matrix.loc[row, col] = cell: every position carrying these two labels
LocSet(matrix, teams, row, col, cell) ==
    [p \in DOMAIN matrix |-> IF teams[p[1]] = row /\ teams[p[2]] = col THEN cell ELSE matrix[p]]

\* totals[team][field] += n
TotalsAdd(totals, team, wins, losses, ties) ==
    [totals EXCEPT ![team] = [wins |-> @.wins + wins, losses |-> @.losses + losses, ties |-> @.ties + ties]]

\* the loop over the pairs, lines 21-65
RECURSIVE PairLoop(_, _, _, _)
PairLoop(df, pairs, matrix, totals) ==
    IF pairs = <<>> THEN [raised |-> FALSE, matrix |-> matrix, totals |-> totals]
    ELSE LET teams == [i \in 1..Len(df) |-> df[i].Team]
             team1 == teams[Head(pairs)[1]]
             team2 == teams[Head(pairs)[2]]
             c == CountOutcomes(df, team1, team2)
         IN  IF c.raised THEN [raised |-> TRUE, matrix |-> matrix, totals |-> totals]
             ELSE PairLoop(df, Tail(pairs),
                      LocSet(LocSet(matrix, teams, team1, team2, FormatWLT(c.wins, c.losses, c.ties)),
                             teams, team2, team1, FormatWLT(c.losses, c.wins, c.ties)),
                      TotalsAdd(TotalsAdd(totals, team1, c.wins, c.losses, c.ties),
                                team2, c.losses, c.wins, c.ties))

H2HRaised == [raised |-> TRUE, matrix |-> <<>>, totals |-> <<>>, wlt |-> <<>>, winpct |-> <<>>]

\* The frame built before the export: the matrix, the totals of the team
\* at each position, the column W-L-T formatted from them and the column
\* Win% (as the fraction it is computed from, times 100).
\* An empty frame has no column Team (KeyError); a team with no game at all
\* divides by zero.
build_head_to_head_df(df) ==
    IF df = <<>> THEN H2HRaised
    ELSE
    LET n == Len(df)
        teams == [i \in 1..n |-> df[i].Team]
        names == {teams[i] : i \in 1..n}
        loop == PairLoop(df, combinations(n, 1, 2),
                    [p \in (1..n) \X (1..n) |-> HNaN],
                    [team \in names |-> [wins |-> 0, losses |-> 0, ties |-> 0]])
        games(team) == loop.totals[team].wins + loop.totals[team].losses + loop.totals[team].ties
    IN  IF loop.raised THEN H2HRaised
        ELSE IF \E i \in 1..n : games(teams[i]) = 0 THEN H2HRaised
        ELSE [raised |-> FALSE,
              matrix |-> [p \in (1..n) \X (1..n) |-> IF teams[p[1]] = teams[p[2]] THEN <<"-">> ELSE loop.matrix[p]],
              totals |-> [i \in 1..n |-> loop.totals[teams[i]]],
              wlt |-> [i \in 1..n |-> FormatWLT(loop.totals[teams[i]].wins, loop.totals[teams[i]].losses, loop.totals[teams[i]].ties)],
              winpct |-> [i \in 1..n |-> [num |-> 100 * (2 * loop.totals[teams[i]].wins + loop.totals[teams[i]].ties),
                                          den |-> 2 * games(teams[i])]]]

\* the largest league handed to build_head_to_head_df
MaxLeague == 3

H2HNames == {<<"A">>, <<"B">>, <<"C">>}

H2HColumns == {scoring_cats[c] : c \in 1..Len(scoring_cats)} \cup {"FGA", "FTA"}

\* four stat lines: all equal; FG% tied with more attempts, more points and
\* more turnovers; FT% tied with more attempts, a missing BLK and fewer
\* rebounds; a PTS value float() rejected
LineBase == [c \in H2HColumns |-> HNum(1)]
LineMoreFGA == [LineBase EXCEPT !["FGA"] = HNum(2), !["TO"] = HNum(2), !["PTS"] = HNum(2)]
LineMoreFTA == [LineBase EXCEPT !["FTA"] = HNum(2), !["BLK"] = HNaN, !["REB"] = HNum(0)]
LineText == [LineBase EXCEPT !["PTS"] = HStr(<<"x">>)]
H2HLines == {LineBase, LineMoreFGA, LineMoreFTA, LineText}

H2HRows == {[Team |-> name, stats |-> line] : name \in H2HNames, line \in H2HLines}

RECURSIVE FramesOfLen(_)
FramesOfLen(n) == IF n = 0 THEN {<<>>} ELSE {Append(f, r) : f \in FramesOfLen(n - 1), r \in H2HRows}

H2HFrames == UNION {FramesOfLen(n) : n \in 0..MaxLeague}

H2HInit ==
    /\ h_df \in H2HFrames
    /\ h_pc = "called"
    /\ h_out = <<>>
    /\ sg_root = None /\ sg_default = None /\ sg_keys = <<>> /\ sg_d = None /\ sg_at = None
    /\ sg_pc = "idle" /\ sg_ret = None
    /\ p_fn = "idle" /\ p_data = None /\ p_pc = "idle" /\ p_out = Returned(<<>>)
    /\ MainIdle /\ SaveIdle /\ CallsIdle /\ TokenIdle

\* build_head_to_head_df runs to its end: the frame is built and exported
H2HBuild ==
    /\ h_pc = "called"
    /\ h_pc' = "done"
    /\ h_out' = build_head_to_head_df(h_df)
    /\ UNCHANGED <<h_df, sg_vars, p_vars, m_vars, sv_vars, c_vars, t_vars>>

\* dfi.export raises (no browser to render the table): nothing is left
H2HExportFails ==
    /\ h_pc = "called"
    /\ ~build_head_to_head_df(h_df).raised
    /\ h_pc' = "done"
    /\ h_out' = H2HRaised
    /\ UNCHANGED <<h_df, sg_vars, p_vars, m_vars, sv_vars, c_vars, t_vars>>

H2HNext == H2HBuild \/ H2HExportFails

SpecH2H == H2HInit /\ [][H2HNext]_vars

-----------------------------------------------------------------------------
(* A claim about the head-to-head table, checked under SpecH2H *)

\* team a takes the category from team b: the lower value in TO, the higher
\* attempts count when FG% or FT% are equal, the higher value otherwise
Takes(a, b, cat) ==
    IF cat = "TO" THEN CellLt(a.stats[cat], b.stats[cat])
    ELSE IF cat = "FG%" /\ CellEq(a.stats[cat], b.stats[cat]) THEN CellLt(b.stats["FGA"], a.stats["FGA"])
    ELSE IF cat = "FT%" /\ CellEq(a.stats[cat], b.stats[cat]) THEN CellLt(b.stats["FTA"], a.stats["FTA"])
    ELSE CellLt(b.stats[cat], a.stats[cat])

\* the number of scoring categories the team at position i takes from the one at j
Taken(i, j) == Cardinality({c \in 1..Len(scoring_cats) : Takes(h_df[i], h_df[j], scoring_cats[c])})

RECURSIVE SumOver(_, _)
SumOver(f, n) == IF n = 0 THEN 0 ELSE f[n] + SumOver(f, n - 1)

H2HDone == h_pc = "done" /\ ~h_out.raised

\* the table states, for every two teams, the outcome of their nine
\* categories, and the totals add up
HeadToHeadHolds ==
    LET n == Len(h_df)
    IN  /\ \A i, j \in 1..n :
               i # j => /\ h_out.matrix[<<i, j>>] = FormatWLT(Taken(i, j), Taken(j, i), 9 - Taken(i, j) - Taken(j, i))
                        /\ h_out.matrix[<<j, i>>] = FormatWLT(Taken(j, i), Taken(i, j), 9 - Taken(i, j) - Taken(j, i))
        /\ \A i \in 1..n : h_out.totals[i].wins + h_out.totals[i].losses + h_out.totals[i].ties = 9 * (n - 1)
        /\ SumOver([i \in 1..n |-> h_out.totals[i].wins], n) = SumOver([i \in 1..n |-> h_out.totals[i].losses], n)

DistinctNames == \A i, j \in 1..Len(h_df) : h_df[i].Team = h_df[j].Team => i = j

\* the same for a league in which no two teams carry the same name
C30_DistinctNames == (H2HDone /\ DistinctNames) => HeadToHeadHolds

C30_WitnessDistinct ==
    /\ H2HDone /\ DistinctNames /\ Len(h_df) = 3
    /\ \E i, j \in 1..3 : Taken(i, j) > 0 /\ Taken(j, i) > 0 /\ Taken(i, j) + Taken(j, i) < 9

-----------------------------------------------------------------------------
(* OAuth token cache (src/token_manager.py) and the calls of               *)
(* YahooAPIHandler that use it (src/yahoo_api_handler.py)                   *)
(* A token dict is a function from the keys it has to Python values; no     *)
(* token (Python None) is None.  The token file is JSON with string keys    *)
(* and string, integer or null values, which json.dump and json.load carry  *)
(* over unchanged.  datetime.now() is the clock t_now, and a datetime is    *)
(* written by isoformat() as its decimal digits.                            *)

NoTokenFile == [exists |-> FALSE, data |-> None]
TokenFile(token_data) == [exists |-> TRUE, data |-> token_data]

Holds(token_data, key) == key \in DOMAIN token_data

\* token_data[key] = value
WithKey(token_data, key, value) ==
    [k \in DOMAIN token_data \cup {key} |-> IF k = key THEN value ELSE token_data[k]]

\* datetime.isoformat()
isoformat(time) == NatToStr(time)

AllDigits(s) == s # <<>> /\ \A i \in 1..Len(s) : s[i] \in Digits

\* datetime.fromisoformat(v): TypeError unless v is a str, ValueError unless it is a date
fromisoformat(v) ==
    IF ~IsStr(v) THEN [err |-> "TypeError", val |-> 0]
    ELSE IF ~AllDigits(v.s) THEN [err |-> "ValueError", val |-> 0]
    ELSE [err |-> "none", val |-> DigitsValue(v.s)]

\* int(v): the integer, the digits of a str (ValueError for another str), TypeError for None
py_int(v) ==
    IF IsInt(v) THEN [err |-> "none", val |-> v.n]
    ELSE IF IsStr(v) THEN IF AllDigits(v.s) THEN [err |-> "none", val |-> DigitsValue(v.s)]
                          ELSE [err |-> "ValueError", val |-> 0]
    ELSE [err |-> "TypeError", val |-> 0]

\* TokenManager.save_token: stamps the dict and writes it
save_token(token_data, now) == TokenFile(WithKey(token_data, "timestamp", PyStr(isoformat(now))))

\* TokenManager.load_token
load_token(file) == IF file.exists THEN file.data ELSE None

\* TokenManager.is_token_valid: the handler catches ValueError and KeyError only
is_token_valid(token_data, now) ==
    IF token_data = None THEN Returned(FALSE)
    ELSE IF ~Holds(token_data, "expires_in") \/ ~Holds(token_data, "timestamp") THEN Returned(FALSE)
    ELSE LET timestamp == fromisoformat(token_data["timestamp"])
             expires_in == py_int(token_data["expires_in"])
         IN  IF timestamp.err = "TypeError" THEN Propagated
             ELSE IF timestamp.err = "ValueError" THEN Returned(FALSE)
             ELSE IF expires_in.err = "TypeError" THEN Propagated
             ELSE IF expires_in.err = "ValueError" THEN Returned(FALSE)
             ELSE Returned(now < timestamp.val + expires_in.val)

\* TokenManager.get_valid_token
get_valid_token(file, now) ==
    LET token_data == load_token(file)
        valid == is_token_valid(token_data, now)
    IN  IF valid.raised THEN Propagated
        ELSE IF valid.result THEN Returned(token_data) ELSE Returned(None)

\* What a call leaves behind: how it ended, the token file, the HTTP
\* requests it sent and the file removals it made
Ended(out, file, trace) == [out |-> out, file |-> file, trace |-> trace]

TokenEndpoint == "POST get_token"
ApiEndpoint == "fantasy API"
RemoveFile == "os.remove"

\* YahooAPIHandler.fetch_token: resp is the answer of the token endpoint,
\* disk whether the token file can be opened for writing
fetch_token(file, now, resp, disk) ==
    IF resp.status # "ok" THEN Ended(Propagated, file, <<TokenEndpoint>>)
    ELSE IF ~disk THEN Ended(Propagated, file, <<TokenEndpoint>>)
    ELSE Ended(Returned(save_token(resp.json, now).data), save_token(resp.json, now), <<TokenEndpoint>>)

\* YahooAPIHandler.refresh_token that persists the response as it came
refresh_token_as_received(file, now, resp, disk) ==
    LET token_data == load_token(file)
    IN  IF token_data = None \/ ~Holds(token_data, "refresh_token") THEN Ended(Returned(None), file, <<>>)
        ELSE IF resp.status # "ok" \/ ~disk THEN Ended(Propagated, file, <<TokenEndpoint>>)
        ELSE Ended(Returned(save_token(resp.json, now).data), save_token(resp.json, now), <<TokenEndpoint>>)

\* YahooAPIHandler.refresh_token
refresh_token(file, now, resp, disk) ==
    LET token_data == load_token(file)
        new_token_data ==
            IF Holds(resp.json, "refresh_token") THEN resp.json
            ELSE WithKey(resp.json, "refresh_token", token_data["refresh_token"])
    IN  IF token_data = None \/ ~Holds(token_data, "refresh_token") THEN Ended(Returned(None), file, <<>>)
        ELSE IF resp.status # "ok" THEN Ended(Propagated, file, <<TokenEndpoint>>)
        ELSE IF ~disk THEN Ended(Propagated, file, <<TokenEndpoint>>)
        ELSE Ended(Returned(save_token(new_token_data, now).data), save_token(new_token_data, now), <<TokenEndpoint>>)

\* YahooAPIHandler.get_valid_access_token that refreshes whatever the cache holds
get_valid_access_token_always_refresh(file, now, resp, disk) ==
    LET refreshed == refresh_token(file, now, resp, disk)
    IN  IF ~refreshed.out.raised /\ refreshed.out.result # None /\ Holds(refreshed.out.result, "access_token")
        THEN Ended(Returned(refreshed.out.result["access_token"]), refreshed.file, refreshed.trace)
        ELSE Ended(Returned(None), refreshed.file, refreshed.trace)

\* YahooAPIHandler.get_valid_access_token
get_valid_access_token(file, now, resp, disk) ==
    LET valid_token == get_valid_token(file, now)
        refreshed == refresh_token(file, now, resp, disk)
    IN  IF valid_token.raised THEN Ended(Propagated, file, <<>>)
        ELSE IF valid_token.result # None /\ Holds(valid_token.result, "access_token")
        THEN Ended(Returned(valid_token.result["access_token"]), file, <<>>)
        ELSE IF ~refreshed.out.raised /\ refreshed.out.result # None /\ Holds(refreshed.out.result, "access_token")
        THEN Ended(Returned(refreshed.out.result["access_token"]), refreshed.file, refreshed.trace)
        ELSE Ended(Returned(None), refreshed.file, refreshed.trace)

\* YahooAPIHandler.make_request that sends the request with whatever token it got
make_request_unchecked(file, now, resp, disk, api) ==
    LET token == get_valid_access_token(file, now, resp, disk)
    IN  IF token.out.raised THEN Ended(Propagated, token.file, token.trace)
        ELSE IF api # "ok" THEN Ended(Propagated, token.file, token.trace \o <<ApiEndpoint>>)
        ELSE Ended(Returned(PyStr(<<"r">>)), token.file, token.trace \o <<ApiEndpoint>>)

\* YahooAPIHandler.make_request: api is the answer of the fantasy API
make_request(file, now, resp, disk, api) ==
    LET token == get_valid_access_token(file, now, resp, disk)
    IN  IF token.out.raised THEN Ended(Propagated, token.file, token.trace)
        ELSE IF token.out.result = None THEN Ended(Propagated, token.file, token.trace)
        ELSE IF api # "ok" THEN Ended(Propagated, token.file, token.trace \o <<ApiEndpoint>>)
        ELSE Ended(Returned(PyStr(<<"r">>)), token.file, token.trace \o <<ApiEndpoint>>)

\* YahooAPIHandler.reset_token that leaves the file
reset_token_keeps_file(file) == Ended(Returned(None), file, <<>>)

\* YahooAPIHandler.reset_token: removes the file if it exists
reset_token(file) ==
    IF file.exists THEN Ended(Returned(None), NoTokenFile, <<RemoveFile>>)
    ELSE Ended(Returned(None), file, <<>>)

\* the last tick of the clock
MaxTime == 2

AccessTokens == {PyStr(<<"a", "1">>), PyStr(<<"a", "2">>)}
RefreshTokens == {PyStr(<<"r", "1">>), PyStr(<<"r", "2">>)}
Lifetimes == {PyInt(1)}

\* the JSON bodies the token endpoint answers with: each of access_token,
\* refresh_token and expires_in is there or not, and expires_in may be null
TokenBodies ==
    {[k \in keys |-> CASE k = "access_token" -> a [] k = "refresh_token" -> r [] k = "expires_in" -> e] :
        keys \in SUBSET {"access_token", "refresh_token", "expires_in"},
        a \in AccessTokens, r \in RefreshTokens, e \in Lifetimes \cup {None}}

NoAnswer == [status |-> "error", json |-> <<>>]
TokenAnswers == {NoAnswer} \cup {[status |-> "ok", json |-> body] : body \in TokenBodies}

ApiAnswers == {"ok", "error"}

\* what a call meets: an answer of the token endpoint with a token file
\* that can be written, or a complete answer with one that cannot
FullAnswer == [status |-> "ok", json |-> [access_token |-> PyStr(<<"a", "2">>), refresh_token |-> PyStr(<<"r", "2">>), expires_in |-> PyInt(1)]]
Surroundings == {[resp |-> resp, disk |-> TRUE] : resp \in TokenAnswers} \cup {[resp |-> FullAnswer, disk |-> FALSE]}

\* arguments of is_token_valid: no token, and dicts whose expires_in and
\* timestamp are missing, well formed, unparsable strings, null or of another type
TimestampValues == {PyStr(isoformat(t)) : t \in 0..MaxTime} \cup {PyStr(<<"x">>), None, PyInt(1)}
ExpiresValues == {PyInt(0), PyInt(1), PyInt(2), PyStr(<<"2">>), PyStr(<<"x">>), None}
TokenArguments ==
    {None}
    \cup {[k \in keys |-> CASE k = "access_token" -> PyStr(<<"a", "1">>) [] k = "timestamp" -> ts [] k = "expires_in" -> e] :
            keys \in SUBSET {"access_token", "timestamp", "expires_in"},
            ts \in TimestampValues, e \in ExpiresValues}

\* a fresh installation: no token file yet
TokenInit ==
    /\ t_file = NoTokenFile
    /\ t_now = 0
    /\ t_op = "start" /\ t_arg = <<>> /\ t_trace = <<>> /\ t_out = <<>>
    /\ sg_root = None /\ sg_default = None /\ sg_keys = <<>> /\ sg_d = None
    /\ sg_at = None /\ sg_pc = "idle" /\ sg_ret = None
    /\ p_fn = "idle" /\ p_data = None /\ p_pc = "idle" /\ p_out = Returned(<<>>)
    /\ MainIdle /\ SaveIdle /\ CallsIdle /\ H2HIdle

\* a call ended: what it leaves in the state
TokenCall(op, arg, ended) ==
    /\ t_op' = op
    /\ t_arg' = arg
    /\ t_file' = ended.file
    /\ t_trace' = ended.trace
    /\ t_out' = ended.out
    /\ UNCHANGED <<t_now, sg_vars, p_vars, m_vars, sv_vars, c_vars, h_vars>>

TokFetchToken ==
    \E env \in Surroundings :
        TokenCall("fetch_token", env, fetch_token(t_file, t_now, env.resp, env.disk))

TokRefreshToken ==
    \E env \in Surroundings :
        TokenCall("refresh_token", env, refresh_token(t_file, t_now, env.resp, env.disk))

TokGetValidAccessToken ==
    \E env \in Surroundings :
        TokenCall("get_valid_access_token", env, get_valid_access_token(t_file, t_now, env.resp, env.disk))

TokMakeRequest ==
    \E env \in Surroundings, api \in ApiAnswers :
        TokenCall("make_request", [resp |-> env.resp, disk |-> env.disk, api |-> api],
                  make_request(t_file, t_now, env.resp, env.disk, api))

TokResetToken == TokenCall("reset_token", <<>>, reset_token(t_file))

\* time passes between two calls
TokTick ==
    /\ t_now < MaxTime
    /\ t_now' = t_now + 1
    /\ UNCHANGED <<t_file, t_op, t_arg, t_trace, t_out, sg_vars, p_vars, m_vars, sv_vars, c_vars, h_vars>>

TokenNext ==
    \/ TokFetchToken
    \/ TokRefreshToken
    \/ TokGetValidAccessToken
    \/ TokMakeRequest
    \/ TokResetToken
    \/ TokTick

SpecToken == TokenInit /\ [][TokenNext]_vars


\* is_token_valid on its own: the call is made at any time with any argument
ValidInit ==
    /\ t_op = "is_token_valid"
    /\ t_arg \in TokenArguments
    /\ t_now \in 0..MaxTime
    /\ t_out = <<>>
    /\ t_file = NoTokenFile /\ t_trace = <<>>
    /\ sg_root = None /\ sg_default = None /\ sg_keys = <<>> /\ sg_d = None
    /\ sg_at = None /\ sg_pc = "idle" /\ sg_ret = None
    /\ p_fn = "idle" /\ p_data = None /\ p_pc = "idle" /\ p_out = Returned(<<>>)
    /\ MainIdle /\ SaveIdle /\ CallsIdle /\ H2HIdle

IsTokenValidEnds ==
    /\ t_out = <<>>
    /\ t_out' = is_token_valid(t_arg, t_now)
    /\ UNCHANGED <<t_file, t_now, t_op, t_arg, t_trace, sg_vars, p_vars, m_vars, sv_vars, c_vars, h_vars>>

ValidNext == IsTokenValidEnds

SpecValid == ValidInit /\ [][ValidNext]_vars

-----------------------------------------------------------------------------
(* A claim about is_token_valid, checked under SpecValid *)

\* the token has both fields, both can be read, and it has not expired
Unexpired(token_data, now) ==
    /\ token_data # None
    /\ Holds(token_data, "expires_in") /\ Holds(token_data, "timestamp")
    /\ fromisoformat(token_data["timestamp"]).err = "none"
    /\ py_int(token_data["expires_in"]).err = "none"
    /\ now < fromisoformat(token_data["timestamp"]).val + py_int(token_data["expires_in"]).val

\* C24 (as claimed): is_token_valid returns True exactly when the token is
\* not None, has expires_in and timestamp, and the current time is strictly
\* before timestamp + expires_in; for None, missing fields or field values
\* that cannot be parsed, a null or non-string value included, it returns
\* False and does not raise.
C24_IsTokenValid ==
    (t_op = "is_token_valid" /\ t_out # <<>>) =>
        /\ ~t_out.raised
        /\ t_out.result = Unexpired(t_arg, t_now)

\* a field value of a type the conversions reject with TypeError
Mistyped(token_data) ==
    /\ token_data # None
    /\ \/ Holds(token_data, "timestamp") /\ ~IsStr(token_data["timestamp"])
       \/ Holds(token_data, "expires_in") /\ ~IsStr(token_data["expires_in"]) /\ ~IsInt(token_data["expires_in"])

\* the same for arguments whose fields, when present, are strings or integers
C24_WellTyped ==
    (t_op = "is_token_valid" /\ t_out # <<>> /\ ~Mistyped(t_arg)) =>
        /\ ~t_out.raised
        /\ t_out.result = Unexpired(t_arg, t_now)

-----------------------------------------------------------------------------
(* Claims about the token calls, checked under SpecToken *)

\* the step is a call of op (a tick of the clock leaves t_op as it was)
Called(op) == t_op' = op /\ t_now' = t_now

\* the cached token before the call
Cached == load_token(t_file)

CachedUsable == Unexpired(Cached, t_now) /\ Holds(Cached, "access_token")

\* the refresh of this call goes through: there is a refresh_token to send,
\* the token endpoint answers and the answer is persisted
RefreshSucceeds ==
    /\ Cached # None /\ Holds(Cached, "refresh_token")
    /\ t_arg'.resp.status = "ok" /\ t_arg'.disk

\* C22 (as claimed): get_valid_access_token returns the cached access_token
\* without contacting the token endpoint when the cached token is unexpired
\* and has an access_token; otherwise it attempts one refresh, returns the
\* refreshed access_token when the refresh succeeds, and returns None
\* without raising when there is no refresh_token or the refresh fails.
C22_CachedOrRefreshed ==
    [][Called("get_valid_access_token") =>
        IF CachedUsable
        THEN t_out' = Returned(Cached["access_token"]) /\ t_trace' = <<>>
        ELSE /\ Len(t_trace') <= 1
             /\ ~t_out'.raised
             /\ RefreshSucceeds => /\ Holds(t_arg'.resp.json, "access_token")
                                   /\ t_out' = Returned(t_arg'.resp.json["access_token"])
             /\ ~RefreshSucceeds => t_out' = Returned(None)]_vars

\* the same for a cache whose fields are strings or integers, where a
\* refresh that succeeds returns the access_token of the answer when the
\* answer has one and None when it has none
C22_WellTypedCache ==
    [][(Called("get_valid_access_token") /\ ~Mistyped(Cached)) =>
        IF CachedUsable
        THEN t_out' = Returned(Cached["access_token"]) /\ t_trace' = <<>> /\ t_file' = t_file
        ELSE /\ Len(t_trace') <= 1
             /\ \A i \in 1..Len(t_trace') : t_trace'[i] = TokenEndpoint
             /\ ~t_out'.raised
             /\ (RefreshSucceeds /\ Holds(t_arg'.resp.json, "access_token")) =>
                    t_out' = Returned(t_arg'.resp.json["access_token"])
             /\ (RefreshSucceeds /\ ~Holds(t_arg'.resp.json, "access_token")) => t_out' = Returned(None)
             /\ ~RefreshSucceeds => t_out' = Returned(None)]_vars

\* with a null expires_in in the cache the call raises
C22_RaisesOnNull ==
    [][(Called("get_valid_access_token") /\ Mistyped(Cached)) => t_out'.raised /\ t_trace' = <<>>]_vars

\* a call answered from the cache while the token endpoint would have
\* handed out another access_token
C22_Witness ==
    /\ t_op = "get_valid_access_token"
    /\ t_trace = <<>>
    /\ t_file.exists /\ Unexpired(t_file.data, t_now) /\ Holds(t_file.data, "access_token")
    /\ t_out = Returned(t_file.data["access_token"])
    /\ t_arg.resp.status = "ok" /\ t_arg.disk
    /\ Holds(t_arg.resp.json, "access_token") /\ t_arg.resp.json["access_token"] # t_out.result

\* a call that refreshed an expired token and returned the new access_token
C22_WitnessRefreshed ==
    /\ t_op = "get_valid_access_token"
    /\ t_trace = <<TokenEndpoint>>
    /\ t_out.result # None
    /\ t_out.result = t_file.data["access_token"]

\* the refresh_token the persisted token must hold after a refresh that
\* succeeded: that of the answer when it has one, the cached one otherwise
RefreshTokenKept ==
    IF Holds(t_arg'.resp.json, "refresh_token") THEN t_arg'.resp.json["refresh_token"]
    ELSE Cached["refresh_token"]

Persisted ==
    /\ t_file'.exists
    /\ Holds(t_file'.data, "refresh_token") /\ t_file'.data["refresh_token"] = RefreshTokenKept
    /\ Holds(t_file'.data, "timestamp") /\ fromisoformat(t_file'.data["timestamp"]) = [err |-> "none", val |-> t_now]

\* C23: after every refresh_token call that succeeds the persisted token
\* holds a refresh_token (the answer's when present, the previous one
\* otherwise) and a timestamp of the time of the refresh, so that the next
\* refresh is possible again; a refresh that fails leaves the persisted
\* token as it was.  The refresh inside get_valid_access_token and
\* make_request is held to the same.
C23_RefreshKeepsRefreshToken ==
    [][/\ Called("refresh_token") =>
              IF ~t_out'.raised /\ t_out'.result # None
              THEN Persisted /\ t_out'.result = t_file'.data
              ELSE t_file' = t_file
       /\ (Called("get_valid_access_token") \/ Called("make_request")) =>
              (t_file' = t_file \/ Persisted)]_vars

\* a refresh whose answer had no refresh_token and that kept the cached one
C23_Witness ==
    /\ t_op = "refresh_token"
    /\ ~t_out.raised /\ t_out.result # None
    /\ ~Holds(t_arg.resp.json, "refresh_token")
    /\ t_file.exists /\ Holds(t_file.data, "refresh_token")
    /\ t_file.data["timestamp"] = PyStr(isoformat(t_now)) /\ t_now > 0

\* the HTTP requests of the last call that went to the fantasy API
ApiRequests == {i \in 1..Len(t_trace) : t_trace[i] = ApiEndpoint}

\* C25: make_request sends the HTTP request to the API only after
\* get_valid_access_token returned a token (not None) in the same call;
\* when there is no valid token it raises and no API request is sent.
C25_RequestNeedsToken ==
    [][Called("make_request") =>
        LET token == get_valid_access_token(t_file, t_now, t_arg'.resp, t_arg'.disk)
            sent == {i \in 1..Len(t_trace') : t_trace'[i] = ApiEndpoint}
        IN  /\ sent # {} => /\ ~token.out.raised /\ token.out.result # None
                            /\ sent = {Len(t_trace')}
                            /\ SubSeq(t_trace', 1, Len(t_trace') - 1) = token.trace
            /\ (token.out.raised \/ token.out.result = None) => (t_out'.raised /\ sent = {})
            /\ (~token.out.raised /\ token.out.result # None) =>
                   (sent # {} /\ t_out'.raised = (t_arg'.api # "ok"))
            /\ t_file' = token.file]_vars

\* a make_request that found no token, could not refresh and raised
C25_Witness ==
    /\ t_op = "make_request"
    /\ t_out.raised
    /\ t_trace = <<TokenEndpoint>>
    /\ t_arg.api = "ok"

\* a make_request that refreshed the token and then sent the request
C25_WitnessSent ==
    /\ t_op = "make_request"
    /\ ~t_out.raised
    /\ t_trace = <<TokenEndpoint, ApiEndpoint>>

\* no call other than make_request contacts the API
C25_OnlyMakeRequestSends == ApiRequests # {} => t_op = "make_request"


\* C26: after reset_token, and until a fetch_token call succeeds, the token
\* file does not exist, get_valid_access_token returns None without
\* contacting the token endpoint and every make_request raises (without
\* sending anything); reset_token on an empty cache changes nothing.
C26_ResetUntilFetch ==
    [][/\ Called("reset_token") =>
              /\ ~t_file'.exists /\ ~t_out'.raised
              /\ ~t_file.exists => (t_file' = t_file /\ t_trace' = <<>>)
       /\ (~t_file.exists /\ ~(Called("fetch_token") /\ ~t_out'.raised)) =>
              /\ ~t_file'.exists
              /\ Called("get_valid_access_token") => (t_out' = Returned(None) /\ t_trace' = <<>>)
              /\ Called("make_request") => (t_out'.raised /\ t_trace' = <<>>)
              /\ Called("refresh_token") => (t_out' = Returned(None) /\ t_trace' = <<>>)]_vars

\* a reset_token that removed the token file
C26_Witness ==
    /\ t_op = "reset_token"
    /\ t_trace = <<RemoveFile>>
    /\ ~t_file.exists
    /\ t_now > 0

\* a make_request that raised for want of a token file although the token
\* endpoint and the API would have answered
C26_WitnessRaises ==
    /\ t_op = "make_request"
    /\ ~t_file.exists /\ t_out.raised /\ t_trace = <<>>
    /\ t_arg.resp.status = "ok" /\ t_arg.api = "ok" /\ t_arg.disk
====
